---- MODULE Spec2Model ----
(***************************************************************************)
(* Verification model of the field-service scheduler:                      *)
(*   - the VRP solver service (apps/optimiser/main.py, optimize_schedule), *)
(*   - the assignment planner (src/scheduler/scheduler.py, assign_jobs),   *)
(*   - the per-day route optimiser and the ETA back-propagation            *)
(*     (src/scheduler/routing.py).                                         *)
(* All times are integer seconds.  An ISO-8601 string is a record          *)
(* [valid, secs]: the instant it denotes, or a string that does not parse. *)
(* The OR-Tools search is a nondeterministic choice among the assignments  *)
(* that satisfy the constraints the code installs, or no assignment.       *)
(***************************************************************************)
EXTENDS Integers, Sequences, FiniteSets, TLC

VARIABLES
    \* ---- solver service (one POST /optimize-schedule request) ----
    payload,            \* the request body
    pc,                 \* position of the handler
    assignment,         \* what SolveWithParameters returned
    vehicle_id,         \* loop variable of the result extraction
    routes,             \* routes accepted so far
    assigned_item_ids,  \* ids of items seen on a route
    response,           \* the HTTP response
    \* ---- assignment planner (one run of assign_jobs) ----
    ajob,               \* the run's input and position
    assignments_log,    \* the update_job_assignment calls made, in order
    \* ---- route engine (one technician-day and its ETA update) ----
    eday,               \* the day's input and position
    eresult,            \* optimiser result and the jobs' ETAs
    \* ---- route engine (one run of update_job_queues_and_routes) ----
    tloop,              \* the technician list, the loop index, the results
    \* ---- unit builder (group_jobs_by_order, create_schedulable_units) ----
    ubuild              \* the technician's jobs, the groups, the units

vars == <<payload, pc, assignment, vehicle_id, routes, assigned_item_ids,
          response, ajob, assignments_log, eday, eresult, tloop, ubuild>>

solverVars == <<payload, pc, assignment, vehicle_id, routes,
                assigned_item_ids, response>>
assignVars == <<ajob, assignments_log>>
engineVars == <<eday, eresult>>

(***************************************************************************)
(* General helpers                                                         *)
(***************************************************************************)
Range(s) == {s[i] : i \in DOMAIN s}

Max2(a, b) == IF a >= b THEN a ELSE b

Min2(a, b) == IF a <= b THEN a ELSE b

SetMax(S) == CHOOSE x \in S : \A y \in S : y <= x

SetMin(S) == CHOOSE x \in S : \A y \in S : x <= y

\* Sequences without repetition over the set S (every order of every subset).
RECURSIVE SeqsOver(_)
SeqsOver(S) ==
    {<<>>} \cup UNION {{<<x>> \o t : t \in SeqsOver(S \ {x})} : x \in S}

\* The subsequence of s at the indices satisfying Keep, in order.
RECURSIVE SelectIdx(_, _, _)
SelectIdx(s, Keep(_), i) ==
    IF i > Len(s) THEN <<>>
    ELSE (IF Keep(i) THEN <<s[i]>> ELSE <<>>) \o SelectIdx(s, Keep, i + 1)

(***************************************************************************)
(* VRP solver service: apps/optimiser/main.py                              *)
(***************************************************************************)
INFEASIBLE_COST == 9999999

\* The threshold of transit_plus_service_time_callback (and of the travel sum).
LARGE_TRANSIT == 999999

base_penalty == 100000

HorizonBuffer == 43200

MinHorizon == 86400

\* ISO-8601 strings: "ok" parses to the instant secs, "bad" does not parse,
\* "none" is an absent (None or empty) field.
ISO(t) == [kind |-> "ok", secs |-> t]

BadISO == [kind |-> "bad", secs |-> 0]

NoISO == [kind |-> "none", secs |-> 0]

\* datetime.fromisoformat raises ValueError on a "bad" string; the callers
\* test IsoParses before they use the value.
IsoParses(iso) == iso.kind = "ok"

iso_to_seconds(iso) == iso.secs

seconds_to_iso(seconds) == [kind |-> "ok", secs |-> seconds]

NoItem == [id |-> "none", locationIndex |-> -1, durationSeconds |-> 0,
           priority |-> 0, eligibleTechnicianIds |-> {},
           isFixedTime |-> FALSE, fixedTimeISO |-> NoISO]

num_vehicles(p) == Len(p.technicians)

num_items(p) == Len(p.items)

ItemIds(p) == {p.items[i].id : i \in DOMAIN p.items}

\* find_item_by_location_idx / find_item_by_location: the FIRST item of the
\* payload at the location, or None.
find_item_by_location(p, loc_idx) ==
    LET at == {i \in DOMAIN p.items : p.items[i].locationIndex = loc_idx}
    IN IF at = {} THEN NoItem ELSE p.items[SetMin(at)]

\* payload.travelTimeMatrix.get(from, {}).get(to, INFEASIBLE_COST), negative
\* entries replaced by INFEASIBLE_COST.
travel_time_callback(p, from_node, to_node) ==
    LET m == p.travelTimeMatrix
    IN IF <<from_node, to_node>> \notin DOMAIN m THEN INFEASIBLE_COST
       ELSE IF m[<<from_node, to_node>>] < 0 THEN INFEASIBLE_COST
       ELSE m[<<from_node, to_node>>]

service_time_callback(p, node) ==
    LET item == find_item_by_location(p, node)
    IN IF item = NoItem THEN 0 ELSE item.durationSeconds

transit_plus_service_time_callback(p, from_node, to_node) ==
    LET travel == travel_time_callback(p, from_node, to_node)
        service == service_time_callback(p, from_node)
    IN IF travel >= LARGE_TRANSIT \/ service >= LARGE_TRANSIT
       THEN LARGE_TRANSIT
       ELSE travel + service

\* Arc cost of a vehicle: the objective only, never a constraint.
arc_cost_callback(p, vehicle_index, from_node, to_node) ==
    LET travel_cost == travel_time_callback(p, from_node, to_node)
        destination_item == find_item_by_location(p, to_node)
    IN IF travel_cost >= INFEASIBLE_COST THEN INFEASIBLE_COST
       ELSE IF destination_item # NoItem
               /\ p.technicians[vehicle_index].id
                    \notin destination_item.eligibleTechnicianIds
       THEN INFEASIBLE_COST
       ELSE travel_cost

planning_epoch_seconds(p) ==
    SetMin({iso_to_seconds(p.technicians[v].earliestStartTimeISO) :
               v \in DOMAIN p.technicians})

horizon_with_buffer(p) ==
    LET max_end_time_abs ==
            SetMax({iso_to_seconds(p.technicians[v].latestEndTimeISO) :
                       v \in DOMAIN p.technicians})
        max_relative_horizon ==
            Max2(0, max_end_time_abs - planning_epoch_seconds(p))
    IN Max2(max_relative_horizon + HorizonBuffer, MinHorizon)

start_seconds_rel(p, v) ==
    Max2(0, iso_to_seconds(p.technicians[v].earliestStartTimeISO)
              - planning_epoch_seconds(p))

\* end_seconds_rel, clamped to the start when the window is reversed.
end_seconds_rel(p, v) ==
    Max2(start_seconds_rel(p, v),
         Max2(0, iso_to_seconds(p.technicians[v].latestEndTimeISO)
                   - planning_epoch_seconds(p)))

Depots(p) ==
    {p.technicians[v].startLocationIndex : v \in DOMAIN p.technicians}
    \cup {p.technicians[v].endLocationIndex : v \in DOMAIN p.technicians}

\* The nodes a route can visit between its start and its end.
VisitNodes(p) == (0 .. p.numLocations - 1) \ Depots(p)

\* Items with isFixedTime and a fixedTimeISO.
FixedItemIdx(p) ==
    {i \in DOMAIN p.items :
        p.items[i].isFixedTime /\ p.items[i].fixedTimeISO.kind # "none"}

\* fixed_job_times: item id -> fixed time relative to the epoch.  One
\* fixedTimeISO that does not parse raises inside the comprehension; the
\* except clause logs it and the map stays empty for every item.
fixed_job_times(p) ==
    IF \E i \in FixedItemIdx(p) : ~IsoParses(p.items[i].fixedTimeISO)
    THEN <<>>
    ELSE [id \in {p.items[i].id : i \in FixedItemIdx(p)} |->
            LET i == SetMax({j \in FixedItemIdx(p) : p.items[j].id = id})
            IN iso_to_seconds(p.items[i].fixedTimeISO)
                 - planning_epoch_seconds(p)]

\* The items whose fixed time is installed: SetRange(t, t) on the node's
\* CumulVar and AddDisjunction([node], 0).  A negative relative time is
\* skipped with a warning.
ConstrainedFixedIdx(p) ==
    {i \in DOMAIN p.items :
        /\ p.items[i].locationIndex \in 0 .. p.numLocations - 1
        /\ p.items[i].id \in DOMAIN fixed_job_times(p)
        /\ fixed_job_times(p)[p.items[i].id] >= 0}

\* The values SetRange(t, t) pinned the node's CumulVar to.
NodeFixedTimes(p, node) ==
    {fixed_job_times(p)[p.items[i].id] :
        i \in {j \in ConstrainedFixedIdx(p) : p.items[j].locationIndex = node}}

eligible_vehicles(p, i) ==
    {v \in DOMAIN p.technicians :
        p.technicians[v].id \in p.items[i].eligibleTechnicianIds}

\* The items that get a priority disjunction (lines 517-577).
PenaltyItemIdx(p) ==
    {i \in DOMAIN p.items :
        /\ p.items[i].locationIndex \in 0 .. p.numLocations - 1
        /\ p.items[i].id \notin DOMAIN fixed_job_times(p)
        /\ p.items[i].locationIndex \notin Depots(p)
        /\ eligible_vehicles(p, i) # {}}

max_priority(p) == SetMax({p.items[i].priority : i \in DOMAIN p.items})

\* A penalty that grows with the priority number.
priority_penalty_Ascending(p, i) ==
    Max2(0, base_penalty * p.items[i].priority)

priority_penalty(p, i) ==
    Max2(0, base_penalty * (max_priority(p) - p.items[i].priority + 1))

\* A node of no disjunction must be visited; a node of some disjunction may
\* be left out at the price of its penalties.
Droppable(p, node) ==
    \E i \in ConstrainedFixedIdx(p) \cup PenaltyItemIdx(p) :
        p.items[i].locationIndex = node

\* technicianUnavailabilities entries that reach SetBreakIntervalsOfVehicle
\* for vehicle v: known technician, start that parses, duration > 0.
AppliedBreakIdx(p, v) ==
    {k \in DOMAIN p.technicianUnavailabilities :
        LET u == p.technicianUnavailabilities[k]
        IN /\ u.technicianId = p.technicians[v].id
           /\ IsoParses(u.startTimeISO)
           /\ u.durationSeconds > 0}

BreakOf(p, k) ==
    LET u == p.technicianUnavailabilities[k]
    IN [start |-> Max2(0, iso_to_seconds(u.startTimeISO)
                            - planning_epoch_seconds(p)),
        duration |-> u.durationSeconds]

\* RoutingDimension.SetBreakIntervalsOfVehicle stores the list it is given
\* as THE breaks of the vehicle.  The code calls it once per unavailability
\* with a one-element list, so each call replaces the previous one and the
\* vehicle keeps the break of its last entry only.
VehicleBreaks(p, v) ==
    IF AppliedBreakIdx(p, v) = {} THEN {}
    ELSE {BreakOf(p, SetMax(AppliedBreakIdx(p, v)))}

\* ---- the routing model the handler builds, and its solutions ----

StartNode(p, v) == p.technicians[v].startLocationIndex

EndNode(p, v) == p.technicians[v].endLocationIndex

\* The node before the k-th visit of route r of vehicle v.
PrevNode(p, v, r, k) == IF k = 1 THEN StartNode(p, v) ELSE r[k - 1]

\* Value of the Time CumulVar at the k-th visit of route r when the vehicle's
\* start CumulVar is s.  The dimension has slack 0, so a cumul is the previous
\* cumul plus the transit callback, exactly.
RECURSIVE CumulAt(_, _, _, _, _)
CumulAt(p, v, r, s, k) ==
    IF k = 0 THEN s
    ELSE CumulAt(p, v, r, s, k - 1)
           + transit_plus_service_time_callback(p, PrevNode(p, v, r, k), r[k])

EndCumul(p, v, r, s) ==
    CumulAt(p, v, r, s, Len(r))
      + transit_plus_service_time_callback(
            p, PrevNode(p, v, r, Len(r) + 1), EndNode(p, v))

\* How far the search may move a vehicle's start from the opening of its
\* window, in half-hour steps.
MaxShift == 2

StartShifts == {k * 1800 : k \in 0 .. MaxShift}

\* The start cumuls the search is modelled to try for route r: the window's
\* opening, a few later starts, and every start that puts a fixed-time node
\* of the route on its fixed time.
StartCandidates(p, v, r) ==
    IF r = <<>> THEN {start_seconds_rel(p, v)}
    ELSE {start_seconds_rel(p, v) + d : d \in StartShifts}
         \cup UNION {{t - CumulAt(p, v, r, 0, k) : t \in NodeFixedTimes(p, r[k])} :
                        k \in DOMAIN r}

\* A break is taken before the vehicle starts or after it ends: with slack 0
\* there is no room for it between two visits.
BreakOutsideRoute(b, s, e) == b.start + b.duration <= s \/ b.start >= e

\* The constraints of the routing model on one vehicle's route and start.
RouteFeasible(p, v, r, s) ==
    LET e == EndCumul(p, v, r, s)
    IN /\ s >= start_seconds_rel(p, v) /\ s <= end_seconds_rel(p, v)
       /\ e >= start_seconds_rel(p, v) /\ e <= end_seconds_rel(p, v)
       /\ e <= horizon_with_buffer(p)
       /\ \A k \in DOMAIN r :
             \A t \in NodeFixedTimes(p, r[k]) : CumulAt(p, v, r, s, k) = t
       /\ r # <<>> => \A b \in VehicleBreaks(p, v) : BreakOutsideRoute(b, s, e)

\* An assignment: a route (sequence of visit nodes) and a start per vehicle.
Feasible(p, rt, st) ==
    /\ \A v, w \in DOMAIN rt : v # w => Range(rt[v]) \cap Range(rt[w]) = {}
    /\ \A n \in VisitNodes(p) :
          \/ \E v \in DOMAIN rt : n \in Range(rt[v])
          \/ /\ Droppable(p, n)
             /\ Cardinality(NodeFixedTimes(p, n)) <= 1
             /\ \A t \in NodeFixedTimes(p, n) : t <= horizon_with_buffer(p)
    /\ \A v \in DOMAIN rt :
          /\ st[v] \in StartCandidates(p, v, rt[v])
          /\ RouteFeasible(p, v, rt[v], st[v])

NoAssignment == [found |-> FALSE, route |-> <<>>, start |-> <<>>]

\* ---- result extraction (lines 627-804) ----

\* The stop emitted for the k-th visit of vehicle v, if an item is there.
StopAt(p, a, v, k) ==
    LET r == a.route[v]
        node_index == r[k]
        current_item == find_item_by_location(p, node_index)
        index == PrevNode(p, v, r, k)
        segment_travel_time == travel_time_callback(p, index, node_index)
        departure_from_index_rel ==
            IF k = 1
            THEN Max2(0, iso_to_seconds(p.technicians[v].earliestStartTimeISO)
                           - planning_epoch_seconds(p))
            ELSE CumulAt(p, v, r, a.start[v], k - 1)
                   + service_time_callback(p, index)
        physical_arrival_at_next_rel ==
            departure_from_index_rel + segment_travel_time
        scheduled_start_time_rel == CumulAt(p, v, r, a.start[v], k)
        scheduled_end_time_rel ==
            scheduled_start_time_rel + current_item.durationSeconds
    IN [itemId |-> current_item.id,
        arrivalTimeISO |->
            seconds_to_iso(physical_arrival_at_next_rel
                             + planning_epoch_seconds(p)),
        startTimeISO |->
            seconds_to_iso(scheduled_start_time_rel + planning_epoch_seconds(p)),
        endTimeISO |->
            seconds_to_iso(scheduled_end_time_rel + planning_epoch_seconds(p))]

\* route_stops of vehicle v: one stop per visited node that holds an item.
RECURSIVE RouteStopsFrom(_, _, _, _)
RouteStopsFrom(p, a, v, k) ==
    IF k > Len(a.route[v]) THEN <<>>
    ELSE (IF find_item_by_location(p, a.route[v][k]) # NoItem
          THEN <<StopAt(p, a, v, k)>> ELSE <<>>)
         \o RouteStopsFrom(p, a, v, k + 1)

route_stops(p, a, v) == RouteStopsFrom(p, a, v, 1)

\* Sum of the segment travel times below the threshold, the leg to the end
\* node included.
RECURSIVE TravelSumFrom(_, _, _, _)
TravelSumFrom(p, a, v, k) ==
    IF k > Len(a.route[v]) + 1 THEN 0
    ELSE LET r == a.route[v]
             from == PrevNode(p, v, r, k)
             to == IF k > Len(r) THEN EndNode(p, v) ELSE r[k]
             t == travel_time_callback(p, from, to)
         IN (IF t < LARGE_TRANSIT THEN t ELSE 0) + TravelSumFrom(p, a, v, k + 1)

ItemById(p, id) ==
    p.items[SetMax({i \in DOMAIN p.items : p.items[i].id = id})]

\* A re-check that accepts every route.
is_route_valid_AcceptAll(p, v, stops) == TRUE

\* The eligibility re-check of a finished route (lines 785-796).
is_route_valid(p, v, stops) ==
    \A k \in DOMAIN stops :
        p.technicians[v].id \in ItemById(p, stops[k].itemId).eligibleTechnicianIds

TechnicianRoute(p, a, v, stops) ==
    [technicianId |-> p.technicians[v].id,
     stops |-> stops,
     totalTravelTimeSeconds |-> TravelSumFrom(p, a, v, 1),
     totalDurationSeconds |->
        iso_to_seconds(stops[Len(stops)].endTimeISO)
          - iso_to_seconds(stops[1].arrivalTimeISO)]

\* unassigned_item_ids, in payload order.
\* An unassigned list that leaves out no item.
unassigned_item_ids_All(p, assigned) ==
    [i \in DOMAIN p.items |-> p.items[i].id]

unassigned_item_ids(p, assigned) ==
    SelectIdx([i \in DOMAIN p.items |-> p.items[i].id],
              LAMBDA i : p.items[i].id \notin assigned, 1)

\* An unassigned list that names no item.
AllItemIds_Empty(p) == <<>>

AllItemIds(p) == [i \in DOMAIN p.items |-> p.items[i].id]

\* A status choice that reports "partial" also when nothing was routed.
StatusOf_PartialWhenAll(p, unassigned) ==
    IF unassigned = <<>> THEN "success" ELSE "partial"

\* The status chosen from the unassigned list (lines 809-821).
StatusOf(p, unassigned) ==
    IF unassigned = <<>> THEN "success"
    ELSE IF Len(unassigned) < num_items(p) THEN "partial"
    ELSE "error"

NoResponse == [http |-> 0, status |-> "none", routes |-> <<>>,
               unassignedItemIds |-> <<>>]

OptimizationResponsePayload(status, rts, unassigned) ==
    [http |-> 200, status |-> status, routes |-> rts,
     unassignedItemIds |-> unassigned]

HTTPException400 == [http |-> 400, status |-> "none", routes |-> <<>>,
                     unassignedItemIds |-> <<>>]

\* ---- requests ----

Technician(id, earliest, latest) ==
    [id |-> id, startLocationIndex |-> 0, endLocationIndex |-> 0,
     earliestStartTimeISO |-> earliest, latestEndTimeISO |-> latest]

Item(id, loc, dur, prio, elig, fixed) ==
    [id |-> id, locationIndex |-> loc, durationSeconds |-> dur,
     priority |-> prio, eligibleTechnicianIds |-> elig,
     isFixedTime |-> fixed # NoISO, fixedTimeISO |-> fixed]

Unavailability(tech, start, dur) ==
    [technicianId |-> tech, startTimeISO |-> start, durationSeconds |-> dur]

\* A complete matrix over n locations: 0 on the diagonal, 600 s elsewhere.
FullMatrix(n) ==
    [pr \in (0 .. n - 1) \X (0 .. n - 1) |-> IF pr[1] = pr[2] THEN 0 ELSE 600]

\* The same matrix without the entry for the pair pr.
WithoutEntry(m, pr) == [q \in DOMAIN m \ {pr} |-> m[q]]

MatrixSet(n) ==
    {FullMatrix(n),
     WithoutEntry(FullMatrix(n), <<0, 1>>),
     [FullMatrix(n) EXCEPT ![<<0, 1>>] = -1],
     [FullMatrix(n) EXCEPT ![<<0, 1>>] = -1, ![<<2, 1>>] = -1]}

Request(techs, items, unav, matrix) ==
    [technicians |-> techs, items |-> items,
     technicianUnavailabilities |-> unav,
     numLocations |->
        1 + SetMax({0} \cup {items[i].locationIndex : i \in DOMAIN items}),
     travelTimeMatrix |-> matrix]

DayTech1 == Technician("T1", ISO(28800), ISO(61200))

DayTech2 == Technician("T2", ISO(32400), ISO(61200))

\* A window of 300 hours: longer than LARGE_TRANSIT seconds.
LongTech1 == Technician("T1", ISO(28800), ISO(1108800))

TechnicianLists ==
    {<<>>, <<DayTech1>>, <<DayTech1, DayTech2>>, <<LongTech1>>,
     <<Technician("T1", BadISO, ISO(61200))>>,
     <<Technician("T1", ISO(28800), BadISO)>>}

EligibleSets == SUBSET {"T1", "T2"}

\* Eligibility and placement: every eligibility of two items, the second one
\* at its own location, at the first one's, or at the depot.
EligibilityRequests ==
    {Request(techs, items, <<>>, FullMatrix(3)) :
        techs \in TechnicianLists,
        items \in {<<>>}
            \cup {<<Item("J1", 1, 7200, 1, e1, NoISO)>> : e1 \in EligibleSets}
            \cup {<<Item("J1", 1, 7200, 1, e1, NoISO),
                    Item("J2", l2, 3600, 5, e2, NoISO)>> :
                     e1 \in EligibleSets, e2 \in EligibleSets, l2 \in {0, 1, 2}}}

\* Fixed times: 10:00 and 13:00 inside the windows, 07:00 before the earliest
\* technician start, and a string that does not parse.
FixedTimeRequests ==
    {Request(techs, items, <<>>, FullMatrix(3)) :
        techs \in {<<DayTech1>>, <<DayTech1, DayTech2>>},
        items \in {<<Item("J1", 1, 7200, 1, {"T1", "T2"}, f1),
                     Item("J2", l2, 3600, 5, {"T1", "T2"}, f2)>> :
                      f1 \in {NoISO, ISO(36000)},
                      f2 \in {NoISO, BadISO, ISO(25200), ISO(46800)},
                      l2 \in {1, 2}}}

\* Unavailabilities: none, one, two of the same technician, one of each.
UnavailabilityRequests ==
    {Request(techs, items, unav, FullMatrix(3)) :
        techs \in {<<DayTech1>>, <<DayTech1, DayTech2>>},
        items \in {<<Item("J1", 1, 7200, 1, {"T1", "T2"}, NoISO)>>,
                   <<Item("J1", 1, 7200, 1, {"T1", "T2"}, NoISO),
                     Item("J2", 2, 3600, 5, {"T1", "T2"}, NoISO)>>},
        unav \in {<<Unavailability("T1", ISO(43200), 3600)>>,
                  <<Unavailability("T1", ISO(32400), 3600),
                    Unavailability("T1", ISO(54000), 3600)>>,
                  <<Unavailability("T1", ISO(28800), 1800),
                    Unavailability("T2", ISO(36000), 7200)>>,
                  <<Unavailability("T1", BadISO, 3600),
                    Unavailability("T3", ISO(36000), 3600),
                    Unavailability("T1", ISO(36000), 0)>>}}

\* Travel matrices: complete, an entry missing, an entry negative; a day's
\* window and one longer than LARGE_TRANSIT.
MatrixRequests ==
    {Request(techs, items, <<>>, matrix) :
        techs \in {<<DayTech1>>, <<LongTech1>>},
        items \in {<<Item("J1", 1, 7200, 1, {"T1"}, NoISO)>>,
                   <<Item("J1", 1, 7200, 1, {"T1"}, NoISO),
                     Item("J2", 2, 3600, 5, {"T1"}, NoISO)>>,
                   <<Item("J1", 1, 7200, 1, {"T1"}, NoISO),
                     Item("J2", 2, 3600, 101, {"T1"}, NoISO)>>},
        matrix \in MatrixSet(3)}

\* A window of 8000 s: one visit of an hour and the way back fit, two do not.
ShortTech1 == Technician("T1", ISO(28800), ISO(36800))

\* Priorities: two items that differ in id, location and priority only, and
\* a technician with room for one of them.
PriorityRequests ==
    {Request(<<ShortTech1>>,
             <<Item("J1", 1, 3600, p1, {"T1"}, NoISO),
               Item("J2", 2, 3600, p2, {"T1"}, NoISO)>>, <<>>, FullMatrix(3)) :
        p1, p2 \in {1, 2, 3}}

Requests ==
    EligibilityRequests \cup FixedTimeRequests \cup UnavailabilityRequests
      \cup MatrixRequests \cup PriorityRequests

\* ---- the handler, step by step ----

AssignIdle == [phase |-> "idle"]

EngineIdle == [phase |-> "idle"]

InitSolver ==
    /\ payload \in Requests
    /\ pc = "received"
    /\ assignment = NoAssignment
    /\ vehicle_id = 0
    /\ routes = <<>>
    /\ assigned_item_ids = {}
    /\ response = NoResponse
    /\ ajob = AssignIdle
    /\ assignments_log = <<>>
    /\ eday = EngineIdle
    /\ eresult = EngineIdle
    /\ tloop = EngineIdle
    /\ ubuild = EngineIdle

\* Lines 148-162 and 305: the returns and raises before the model is built.
\* An earliestStartTimeISO that does not parse is caught and turned into
\* HTTP 400; a latestEndTimeISO that does not parse raises at line 305,
\* outside that try, and reaches the handler's last except clause.
EarlyReturn ==
    /\ pc = "received"
    /\ \/ /\ payload.items = <<>>
          /\ response' = OptimizationResponsePayload("success", <<>>, <<>>)
       \/ /\ payload.items # <<>>
          /\ payload.technicians = <<>>
          /\ response' =
               OptimizationResponsePayload("error", <<>>, AllItemIds(payload))
       \/ /\ payload.items # <<>>
          /\ payload.technicians # <<>>
          /\ \E v \in DOMAIN payload.technicians :
                ~IsoParses(payload.technicians[v].earliestStartTimeISO)
          /\ response' = HTTPException400
    /\ pc' = "done"
    /\ UNCHANGED <<payload, assignment, vehicle_id, routes, assigned_item_ids,
                   ajob, assignments_log, eday, eresult, tloop, ubuild>>

ModelBuilt ==
    /\ pc = "received"
    /\ payload.items # <<>>
    /\ payload.technicians # <<>>
    /\ \A v \in DOMAIN payload.technicians :
          /\ IsoParses(payload.technicians[v].earliestStartTimeISO)
          /\ IsoParses(payload.technicians[v].latestEndTimeISO)

\* routing.SolveWithParameters returns an assignment that satisfies the model.
SolveFound ==
    /\ ModelBuilt
    /\ \E rt \in [DOMAIN payload.technicians -> SeqsOver(VisitNodes(payload))] :
         \E st \in [DOMAIN payload.technicians ->
                      UNION {StartCandidates(payload, v, rt[v]) :
                                v \in DOMAIN payload.technicians}] :
            /\ Feasible(payload, rt, st)
            /\ assignment' = [found |-> TRUE, route |-> rt, start |-> st]
    /\ pc' = "extract"
    /\ vehicle_id' = 1
    /\ UNCHANGED <<payload, routes, assigned_item_ids, response,
                   ajob, assignments_log, eday, eresult, tloop, ubuild>>

\* routing.SolveWithParameters returns None (lines 833-841).
SolveNone ==
    /\ ModelBuilt
    /\ response' =
         OptimizationResponsePayload("error", <<>>, AllItemIds(payload))
    /\ pc' = "done"
    /\ UNCHANGED <<payload, assignment, vehicle_id, routes, assigned_item_ids,
                   ajob, assignments_log, eday, eresult, tloop, ubuild>>

\* One iteration of `for vehicle_id in range(num_vehicles)` (lines 640-804).
ExtractRoute ==
    /\ pc = "extract"
    /\ LET stops == route_stops(payload, assignment, vehicle_id)
           seen == assigned_item_ids \cup {stops[k].itemId : k \in DOMAIN stops}
       IN IF stops = <<>>
          THEN UNCHANGED <<routes, assigned_item_ids>>
          ELSE IF is_route_valid(payload, vehicle_id, stops)
          THEN /\ routes' = Append(routes,
                     TechnicianRoute(payload, assignment, vehicle_id, stops))
               /\ assigned_item_ids' = seen
          ELSE /\ routes' = routes
               /\ assigned_item_ids' =
                     seen \ {stops[k].itemId : k \in DOMAIN stops}
    /\ IF vehicle_id = num_vehicles(payload)
       THEN pc' = "respond" /\ vehicle_id' = vehicle_id
       ELSE pc' = "extract" /\ vehicle_id' = vehicle_id + 1
    /\ UNCHANGED <<payload, assignment, response,
                   ajob, assignments_log, eday, eresult, tloop, ubuild>>

\* Lines 806-832.
Respond ==
    /\ pc = "respond"
    /\ LET unassigned == unassigned_item_ids(payload, assigned_item_ids)
       IN response' = OptimizationResponsePayload(
                          StatusOf(payload, unassigned), routes, unassigned)
    /\ pc' = "done"
    /\ UNCHANGED <<payload, assignment, vehicle_id, routes, assigned_item_ids,
                   ajob, assignments_log, eday, eresult, tloop, ubuild>>

\* An exception other than HTTPException, raised anywhere after the early
\* returns and the epoch calculation, ends in the `except Exception` clause
\* (lines 845-859).  The ValueError of iso_to_seconds on a latestEndTimeISO
\* that does not parse (line 305) is one; with it nothing else is reached.
UnhandledException ==
    /\ pc \in {"received", "extract", "respond"}
    /\ pc = "received" =>
          /\ payload.items # <<>>
          /\ payload.technicians # <<>>
          /\ \A v \in DOMAIN payload.technicians :
                IsoParses(payload.technicians[v].earliestStartTimeISO)
    /\ response' =
         OptimizationResponsePayload("error", <<>>, AllItemIds(payload))
    /\ pc' = "excepted"
    /\ UNCHANGED <<payload, assignment, vehicle_id, routes, assigned_item_ids,
                   ajob, assignments_log, eday, eresult, tloop, ubuild>>

SolverNext ==
    \/ EarlyReturn
    \/ SolveFound
    \/ SolveNone
    \/ ExtractRoute
    \/ Respond
    \/ UnhandledException

SpecSolver == InitSolver /\ [][SolverNext]_vars

\* ---- properties of the solver service ----

Responded == pc \in {"done", "excepted"} /\ response.http = 200

\* The stops of every returned route, with the route's technician.
ReturnedStops ==
    UNION {{[technicianId |-> response.routes[i].technicianId,
             stop |-> response.routes[i].stops[k]] :
               k \in DOMAIN response.routes[i].stops} :
             i \in DOMAIN response.routes}

\* The vehicles whose solver route has a stop the technician is not eligible for.
IneligibleVehicles ==
    IF ~assignment.found THEN {}
    ELSE {v \in DOMAIN payload.technicians :
            ~is_route_valid(payload, v, route_stops(payload, assignment, v))}

\* C1: no returned stop pairs an item with a technician outside the item's
\* eligibleTechnicianIds; a solver route with such a stop is left out of
\* `routes` as a whole and all its items are in unassignedItemIds.
C1_EligibleStopsOnly ==
    Responded =>
        /\ \A rs \in ReturnedStops :
              rs.technicianId
                \in ItemById(payload, rs.stop.itemId).eligibleTechnicianIds
        /\ \A v \in IneligibleVehicles :
              /\ \A i \in DOMAIN response.routes :
                    response.routes[i].technicianId # payload.technicians[v].id
              /\ \A k \in DOMAIN route_stops(payload, assignment, v) :
                    route_stops(payload, assignment, v)[k].itemId
                      \in Range(response.unassignedItemIds)

\* C1 witness: the solver routed an item to an ineligible technician, that
\* route was dropped, and another technician's route was returned.
C1_Witness ==
    /\ Responded
    /\ IneligibleVehicles # {}
    /\ response.routes # <<>>

\* C2: success iff nothing is unassigned; partial if some but not all items
\* are unassigned; error if all of the (one or more) items are unassigned,
\* which is what the no-solution and the no-technician returns report.
C2_StatusFromUnassigned ==
    Responded =>
        LET n == Len(response.unassignedItemIds)
        IN /\ response.status \in {"success", "partial", "error"}
           /\ response.status = "success" <=> n = 0
           /\ (n > 0 /\ n < num_items(payload)) => response.status = "partial"
           /\ (n > 0 /\ n = num_items(payload)) => response.status = "error"
           /\ (payload.items # <<>> /\ payload.technicians = <<>>)
                 => response.status = "error"
           /\ (ModelBuilt /\ ~assignment.found) => response.status = "error"

\* C2 witness: a response with some items routed and some unassigned.
C2_Witness ==
    /\ Responded
    /\ response.status = "partial"
    /\ response.routes # <<>>

\* C3 (as claimed): every returned stop has arrival <= start <= end and
\* end = start + the item's durationSeconds.
C3_ArrivalStartEnd ==
    Responded =>
        \A rs \in ReturnedStops :
            /\ iso_to_seconds(rs.stop.arrivalTimeISO)
                 <= iso_to_seconds(rs.stop.startTimeISO)
            /\ iso_to_seconds(rs.stop.startTimeISO)
                 <= iso_to_seconds(rs.stop.endTimeISO)
            /\ iso_to_seconds(rs.stop.endTimeISO)
                 = iso_to_seconds(rs.stop.startTimeISO)
                     + ItemById(payload, rs.stop.itemId).durationSeconds

\* C4 (as claimed): a returned stop of an item sent with isFixedTime and a
\* fixedTimeISO that denotes an instant starts at that instant.
C4_FixedTimeExact ==
    Responded =>
        \A rs \in ReturnedStops :
            LET item == ItemById(payload, rs.stop.itemId)
            IN (item.isFixedTime /\ IsoParses(item.fixedTimeISO)) =>
                  iso_to_seconds(rs.stop.startTimeISO)
                    = iso_to_seconds(item.fixedTimeISO)

\* C5 (as claimed): no returned stop of a technician intersects any of that
\* technician's unavailabilities of positive duration.
C5_NoStopInUnavailability ==
    Responded =>
        \A k \in DOMAIN payload.technicianUnavailabilities :
            LET u == payload.technicianUnavailabilities[k]
            IN (IsoParses(u.startTimeISO) /\ u.durationSeconds > 0) =>
                 \A rs \in ReturnedStops :
                    rs.technicianId = u.technicianId =>
                       \/ iso_to_seconds(rs.stop.endTimeISO)
                            <= iso_to_seconds(u.startTimeISO)
                       \/ iso_to_seconds(rs.stop.startTimeISO)
                            >= iso_to_seconds(u.startTimeISO) + u.durationSeconds

\* C16: an exception other than HTTPException ends in a normal response
\* with status error, no routes, and the id of every item of the request
\* in unassignedItemIds.
C16_ExceptionBecomesErrorResponse ==
    pc = "excepted" =>
        /\ response.http = 200
        /\ response.status = "error"
        /\ response.routes = <<>>
        /\ Len(response.unassignedItemIds) = Len(payload.items)
        /\ \A i \in DOMAIN payload.items :
              response.unassignedItemIds[i] = payload.items[i].id

\* C16 witness: the exception came after a route had been accepted; the
\* response carries no route and lists both items.
C16_Witness ==
    /\ pc = "excepted"
    /\ routes # <<>>
    /\ Len(response.unassignedItemIds) = 2

\* A technician window time that does not parse.
InvalidWindow ==
    \E v \in DOMAIN payload.technicians :
        \/ ~IsoParses(payload.technicians[v].earliestStartTimeISO)
        \/ ~IsoParses(payload.technicians[v].latestEndTimeISO)

\* C17 (as claimed): a request with a technician window time that is not a
\* valid ISO-8601 string is answered with HTTP 400 and without routes.
\* Read for requests that carry items; without items the handler returns
\* success before it looks at a technician.
C17_InvalidWindowIs400 ==
    (pc \in {"done", "excepted"} /\ payload.items # <<>> /\ InvalidWindow) =>
        /\ response.http = 400
        /\ response.routes = <<>>

\* The node pairs a returned route drives: start, the stops' locations in
\* order, end.
LegsOf(route) ==
    LET tech == CHOOSE t \in Range(payload.technicians) :
                    t.id = route.technicianId
        nodes == <<tech.startLocationIndex>>
                   \o [k \in DOMAIN route.stops |->
                         ItemById(payload, route.stops[k].itemId).locationIndex]
                   \o <<tech.endLocationIndex>>
    IN {<<nodes[k], nodes[k + 1]>> : k \in 1 .. Len(nodes) - 1}

\* C18 (as claimed): the travel callback gives INFEASIBLE_COST for a missing
\* or negative entry, and no returned route drives a leg whose entry is
\* missing or negative, whatever the technician's window.
C18_NoLegOverMissingEntry ==
    Responded =>
        /\ \A a, b \in 0 .. payload.numLocations - 1 :
              (\/ <<a, b>> \notin DOMAIN payload.travelTimeMatrix
               \/ payload.travelTimeMatrix[<<a, b>>] < 0)
                 => travel_time_callback(payload, a, b) = INFEASIBLE_COST
        /\ \A i \in DOMAIN response.routes :
              \A leg \in LegsOf(response.routes[i]) :
                 /\ leg \in DOMAIN payload.travelTimeMatrix
                 /\ payload.travelTimeMatrix[leg] >= 0

\* ======================================================================
\* The engine's assignment planner: src/src/scheduler/scheduler.py.
\* Times are seconds since midnight of day 1; an Address is a position in
\* miles along one road; None is NoAddress for an Optional[Address] and
\* NoTime for an Optional[datetime].
\* ======================================================================

NoAddress == -1
NoTime == -1
NoTech == 0

max_days_to_check == 14

\* calculate_travel_time (routing.py): whole minutes at 30 mph, 5 at least.
calculate_travel_time(start_loc, end_loc) ==
    IF start_loc = NoAddress \/ end_loc = NoAddress THEN 5 * 60
    ELSE IF start_loc = end_loc THEN 5 * 60
    ELSE LET distance == IF start_loc > end_loc THEN start_loc - end_loc
                         ELSE end_loc - start_loc
             minutes == Max2(5, (distance * 60) \div 30)
         IN minutes * 60

NoAvail == [start_time |-> 0, end_time |-> 0, total_duration |-> 0]

\* get_technician_availability: the day's window the technician record holds.
get_technician_availability(technician, day_number) ==
    IF day_number \in DOMAIN technician.availability
    THEN technician.availability[day_number]
    ELSE NoAvail

RECURSIVE SumDuration(_)
SumDuration(jobs) ==
    IF jobs = <<>> THEN 0 ELSE Head(jobs).job_duration + SumDuration(Tail(jobs))

\* Python's sort is stable: the element at index i goes to the place given
\* by the number of elements with a smaller key, or an equal key and a
\* smaller index.
StableSort(seq, keys) ==
    CHOOSE sorted \in
      {[r \in DOMAIN s |->
          s[CHOOSE i \in DOMAIN s :
               Cardinality({j \in DOMAIN s :
                              \/ k[j] < k[i]
                              \/ k[j] = k[i] /\ j < i}) + 1 = r]]
         : <<s, k>> \in {<<seq, keys>>}} : TRUE

\* sorted(..., key=fixed_schedule_time).
SortByFixedTime(units) ==
    StableSort(units, [i \in DOMAIN units |-> units[i].fixed_schedule_time])

fixed_units_today(technician, day) ==
    LET scheduled_units_today ==
            IF day \in DOMAIN technician.schedule
            THEN technician.schedule[day] ELSE <<>>
    IN SortByFixedTime(SelectSeq(scheduled_units_today,
                                 LAMBDA u : u.fixed_schedule_time # NoTime))

\* The windows between the day's valid fixed units (step 2b).
RECURSIVE WindowsFrom(_, _, _, _)
WindowsFrom(fixed, last_event_end_time, last_event_location, day_end) ==
    IF fixed = <<>>
    THEN IF last_event_end_time < day_end
         THEN <<[window_start |-> last_event_end_time, window_end |-> day_end,
                 location_before_window |-> last_event_location]>>
         ELSE <<>>
    ELSE LET fixed_unit == Head(fixed)
             fixed_start == fixed_unit.fixed_schedule_time
             fixed_end == fixed_start + fixed_unit.duration
         IN IF fixed_unit.duration <= 0 \/ fixed_unit.location = NoAddress
            THEN WindowsFrom(Tail(fixed), last_event_end_time,
                             last_event_location, day_end)
            ELSE IF fixed_start >= last_event_end_time /\ fixed_end <= day_end
            THEN (IF fixed_start > last_event_end_time
                  THEN <<[window_start |-> last_event_end_time,
                          window_end |-> fixed_start,
                          location_before_window |-> last_event_location]>>
                  ELSE <<>>)
                 \o WindowsFrom(Tail(fixed), fixed_end, fixed_unit.location,
                                day_end)
            ELSE WindowsFrom(Tail(fixed), last_event_end_time,
                             last_event_location, day_end)

\* The first window the unit fits in (step 2c): its start, or NoTime.
RECURSIVE FirstFit(_, _, _)
FirstFit(windows, temp_unit_location, temp_unit_duration) ==
    IF windows = <<>> THEN NoTime
    ELSE LET w == Head(windows)
             travel_to_new_unit ==
                 calculate_travel_time(w.location_before_window,
                                       temp_unit_location)
             arrival_time == w.window_start + travel_to_new_unit
             potential_start == Max2(w.window_start, arrival_time)
             potential_end == potential_start + temp_unit_duration
         IN IF w.location_before_window # NoAddress
               /\ potential_end <= w.window_end
            THEN potential_start
            ELSE FirstFit(Tail(windows), temp_unit_location, temp_unit_duration)

RECURSIVE EtaFromDay(_, _, _, _)
EtaFromDay(technician, temp_unit_location, temp_unit_duration, current_day) ==
    IF current_day > max_days_to_check THEN NoTime
    ELSE LET availability ==
                 get_technician_availability(technician, current_day)
             start_location_today ==
                 IF current_day = 1 THEN technician.current_location
                 ELSE technician.home_location
             fit == FirstFit(WindowsFrom(fixed_units_today(technician, current_day),
                                         availability.start_time,
                                         start_location_today,
                                         availability.end_time),
                             temp_unit_location, temp_unit_duration)
         IN IF availability = NoAvail \/ availability.total_duration <= 0
               \/ start_location_today = NoAddress
               \/ fit = NoTime
            THEN EtaFromDay(technician, temp_unit_location, temp_unit_duration,
                            current_day + 1)
            ELSE fit

calculate_eta(technician, jobs_to_consider) ==
    IF jobs_to_consider = <<>> THEN NoTime
    ELSE IF jobs_to_consider[1].location = NoAddress THEN NoTime
    ELSE IF SumDuration(jobs_to_consider) <= 0 THEN NoTime
    ELSE EtaFromDay(technician, jobs_to_consider[1].location,
                    SumDuration(jobs_to_consider), 1)

\* Technician.has_equipment and Technician.has_all_equipment: the
\* technician's equipment covers the required equipment (of every job).
has_equipment(technician, required_equipment) ==
    required_equipment \subseteq technician.equipment

has_all_equipment(technician, order_jobs) ==
    UNION {order_jobs[i].equipment_required : i \in DOMAIN order_jobs}
        \subseteq technician.equipment

\* ---- assign_jobs ----

\* A filter that lets every job through.
dynamic_jobs_to_consider_KeepFixed(all_eligible_jobs) ==
    all_eligible_jobs

dynamic_jobs_to_consider(all_eligible_jobs) ==
    SelectSeq(all_eligible_jobs, LAMBDA job : ~job.fixed_assignment)

\* The keys of jobs_by_order_id, in insertion order.
RECURSIVE OrderIdsFrom(_, _)
OrderIdsFrom(jobs, seen) ==
    IF jobs = <<>> THEN <<>>
    ELSE IF Head(jobs).order_id \in seen THEN OrderIdsFrom(Tail(jobs), seen)
    ELSE <<Head(jobs).order_id>>
           \o OrderIdsFrom(Tail(jobs), seen \cup {Head(jobs).order_id})

jobs_by_order_id(all_eligible_jobs, order_id) ==
    SelectSeq(dynamic_jobs_to_consider(all_eligible_jobs),
              LAMBDA job : job.order_id = order_id)

\* The dict `etas` over the technicians at the indices idx: those with an ETA.
etas_of(technicians, idx, jobs) ==
    [i \in {k \in idx : calculate_eta(technicians[k], jobs) # NoTime} |->
        calculate_eta(technicians[i], jobs)]

\* min(etas, key=etas.get): the first technician, in list order, with the
\* least ETA; NoTech when etas is empty.
min_eta_tech(etas) ==
    IF DOMAIN etas = {} THEN NoTech
    ELSE SetMin({i \in DOMAIN etas : \A k \in DOMAIN etas : etas[i] <= etas[k]})

\* A filter that looks at the first job of the order only.
fully_equipped_techs_FirstJobOnly(technicians, order_jobs) ==
    {i \in DOMAIN technicians :
        has_equipment(technicians[i], order_jobs[1].equipment_required)}

fully_equipped_techs(technicians, order_jobs) ==
    {i \in DOMAIN technicians : has_all_equipment(technicians[i], order_jobs)}

individual_eligible(technicians, job) ==
    {i \in DOMAIN technicians :
        has_equipment(technicians[i], job.equipment_required)}

\* The index of best_tech_for_order, NoTech for None.
best_tech_for_order(technicians, order_jobs) ==
    IF Len(order_jobs) > 1
    THEN min_eta_tech(etas_of(technicians,
                              fully_equipped_techs(technicians, order_jobs),
                              order_jobs))
    ELSE NoTech

\* A choice that falls back on the first eligible technician without an ETA.
best_individual_tech_IgnoreEta(technicians, job) ==
    LET best == min_eta_tech(etas_of(technicians,
                                     individual_eligible(technicians, job),
                                     <<job>>))
    IN IF best = NoTech /\ individual_eligible(technicians, job) # {}
       THEN SetMin(individual_eligible(technicians, job))
       ELSE best

best_individual_tech(technicians, job) ==
    min_eta_tech(etas_of(technicians, individual_eligible(technicians, job),
                         <<job>>))

\* update_job_assignment(job_id, technician_id, ASSIGNED), as logged.
assign_job_to_technician(job, technician) ==
    [job_id |-> job.id, tech_id |-> technician.id]

RECURSIVE IndividualWrites(_, _)
IndividualWrites(technicians, order_jobs) ==
    IF order_jobs = <<>> THEN <<>>
    ELSE LET job == Head(order_jobs)
             best == best_individual_tech(technicians, job)
         IN (IF best # NoTech
             THEN <<assign_job_to_technician(job, technicians[best])>>
             ELSE <<>>)
            \o IndividualWrites(technicians, Tail(order_jobs))

\* The calls of calculate_eta the whole-order attempt makes (lines 241-248)
\* and those the individual loop makes (267-274): technician, jobs, result.
order_eta_calls(technicians, order_jobs) ==
    IF Len(order_jobs) > 1
    THEN {[tech |-> i, jobs |-> order_jobs,
           eta |-> calculate_eta(technicians[i], order_jobs)] :
             i \in fully_equipped_techs(technicians, order_jobs)}
    ELSE {}

individual_eta_calls(technicians, order_jobs) ==
    UNION {{[tech |-> i, jobs |-> <<order_jobs[k]>>,
             eta |-> calculate_eta(technicians[i], <<order_jobs[k]>>)] :
               i \in individual_eligible(technicians, order_jobs[k])} :
           k \in DOMAIN order_jobs}

\* ---- the planner's inputs ----

Avail(start_time, end_time) ==
    [start_time |-> start_time, end_time |-> end_time,
     total_duration |-> end_time - start_time]

\* 09:00 to 17:00 on the given day.
WorkDay(day) ==
    Avail((day - 1) * 86400 + 32400, (day - 1) * 86400 + 61200)

\* A window whose total_duration has a break deducted.
AvailWithBreak(start_time, end_time, break_duration) ==
    [start_time |-> start_time, end_time |-> end_time,
     total_duration |-> end_time - start_time - break_duration]

\* A unit of a technician's schedule with a fixed time, and one without
\* (fixed_schedule_time None) that the last plan put at estimated_start_time.
Unit(id, fixed_schedule_time, duration, location) ==
    [id |-> id, fixed_schedule_time |-> fixed_schedule_time,
     duration |-> duration, location |-> location,
     estimated_start_time |-> fixed_schedule_time]

DynamicUnit(id, estimated_start_time, duration, location) ==
    [id |-> id, fixed_schedule_time |-> NoTime,
     duration |-> duration, location |-> location,
     estimated_start_time |-> estimated_start_time]

Tech(id, equipment, availability, schedule) ==
    [id |-> id, equipment |-> equipment, current_location |-> 0,
     home_location |-> 0, availability |-> availability,
     schedule |-> schedule]

Job(id, order_id, location, job_duration, equipment_required, fixed_assignment) ==
    [id |-> id, order_id |-> order_id, location |-> location,
     job_duration |-> job_duration, equipment_required |-> equipment_required,
     fixed_assignment |-> fixed_assignment,
     earliest_available_time |-> NoTime]

\* A job of an order with an earliest_available_time.
EarliestJob(job, earliest_available_time) ==
    [job EXCEPT !.earliest_available_time = earliest_available_time]

NoDays == [d \in {} |-> NoAvail]
TwoDays == [d \in {1, 2} |-> WorkDay(d)]
SecondDayOnly == [d \in {2} |-> WorkDay(d)]
\* 09:00 to 17:00 with an hour's break deducted: seven working hours.
BreakDays ==
    [d \in {1, 2} |->
        AvailWithBreak((d - 1) * 86400 + 32400, (d - 1) * 86400 + 61200, 3600)]
\* A first day whose window is empty (total_duration 0), then a work day.
ZeroFirstDay ==
    [d \in {1, 2} |-> IF d = 1 THEN Avail(32400, 32400) ELSE WorkDay(d)]
Availabilities == {NoDays, TwoDays, SecondDayOnly, BreakDays, ZeroFirstDay}

NoSchedule == [d \in {} |-> <<>>]
\* A fixed visit from 10:00 to 11:00 on day 1, and the whole of day 2 booked.
BusySchedule ==
    [d \in {1, 2} |->
        IF d = 1 THEN <<Unit("u1", 36000, 3600, 6)>>
        ELSE <<Unit("u2", 86400 + 32400, 28800, 6)>>]
\* A three-hour visit without a fixed time, planned 09:12 to 12:12 on day 1.
DynamicSchedule == [d \in {1} |-> <<DynamicUnit("u3", 33120, 10800, 6)>>]
Schedules == {NoSchedule, BusySchedule, DynamicSchedule}

JobDurations == {1800, 7200}

TechnicianTeams ==
    {<<Tech(1, {"tool_a"}, a1, NoSchedule),
       Tech(2, {"tool_c"}, a2, NoSchedule),
       Tech(3, {"tool_a", "tool_c"}, a3, s3)>> :
          a1 \in {NoDays, TwoDays}, a2 \in {NoDays, TwoDays},
          a3 \in Availabilities, s3 \in Schedules}
    \cup {<<Tech(1, {"tool_a"}, a1, s1), Tech(2, {"tool_c"}, TwoDays, NoSchedule)>> :
             a1 \in Availabilities, s1 \in Schedules}
    \cup {<<Tech(3, {"tool_a", "tool_c"}, a3, s3)>> :
             a3 \in Availabilities, s3 \in Schedules}
    \cup {<<Tech(2, {"tool_a", "tool_c"}, a2, NoSchedule),
            Tech(1, {"tool_a", "tool_c"}, TwoDays, NoSchedule)>> :
             a2 \in {TwoDays, SecondDayOnly}}
    \cup {<<>>}

JobLists ==
    {<<Job(1000, 99, 4, d1, {"tool_a"}, FALSE),
       Job(1001, 99, 4, d2, {"tool_c"}, FALSE)>> : d1, d2 \in JobDurations}
    \cup {<<Job(1000, 99, 4, d1, {"tool_a"}, FALSE),
            Job(1002, 100, 8, 3600, req, FALSE),
            Job(1001, 99, 4, 1800, {"tool_c"}, FALSE)>> :
              d1 \in JobDurations, req \in {{}, {"tool_c"}, {"tool_d"}}}
    \cup {<<Job(1000, 99, 4, 1800, {"tool_a"}, fx),
            Job(1001, 99, 4, 1800, {"tool_a"}, FALSE)>> : fx \in BOOLEAN}
    \cup {<<Job(1003, 101, 4, d, {"tool_a"}, FALSE)>> : d \in {27000, 30600}}
    \cup {<<EarliestJob(Job(1004, 102, 4, 3600, {"tool_a"}, FALSE), t)>> :
              t \in {43200, 86400 + 43200}}

AssignRun(technicians, all_eligible_jobs) ==
    [phase |-> "orders",
     technicians |-> technicians,
     all_eligible_jobs |-> all_eligible_jobs,
     order_ids |-> OrderIdsFrom(dynamic_jobs_to_consider(all_eligible_jobs), {}),
     next |-> 1,
     eta_calls |-> {}]

NoRequest == Request(<<>>, <<>>, <<>>, FullMatrix(1))

InitAssign ==
    /\ ajob \in {AssignRun(t, j) : t \in TechnicianTeams, j \in JobLists}
    /\ assignments_log = <<>>
    /\ payload = NoRequest
    /\ pc = "idle"
    /\ assignment = NoAssignment
    /\ vehicle_id = 0
    /\ routes = <<>>
    /\ assigned_item_ids = {}
    /\ response = NoResponse
    /\ eday = EngineIdle
    /\ eresult = EngineIdle
    /\ tloop = EngineIdle
    /\ ubuild = EngineIdle

current_order_jobs ==
    jobs_by_order_id(ajob.all_eligible_jobs, ajob.order_ids[ajob.next])

\* One iteration of the loop over jobs_by_order_id whose order goes to
\* best_tech_for_order as a whole (lines 255-260).
AssignWholeOrder ==
    /\ ajob.phase = "orders"
    /\ ajob.next <= Len(ajob.order_ids)
    /\ best_tech_for_order(ajob.technicians, current_order_jobs) # NoTech
    /\ LET tech == ajob.technicians[best_tech_for_order(ajob.technicians,
                                                        current_order_jobs)]
       IN assignments_log' =
            assignments_log
              \o [i \in DOMAIN current_order_jobs |->
                    assign_job_to_technician(current_order_jobs[i], tech)]
    /\ ajob' = [ajob EXCEPT !.next = @ + 1,
                            !.eta_calls = @ \cup order_eta_calls(ajob.technicians,
                                                                current_order_jobs)]
    /\ UNCHANGED <<solverVars, engineVars, tloop, ubuild>>

\* One iteration whose jobs are handled one by one (lines 261-283).
AssignJobsIndividually ==
    /\ ajob.phase = "orders"
    /\ ajob.next <= Len(ajob.order_ids)
    /\ best_tech_for_order(ajob.technicians, current_order_jobs) = NoTech
    /\ assignments_log' =
         assignments_log \o IndividualWrites(ajob.technicians, current_order_jobs)
    /\ ajob' = [ajob EXCEPT !.next = @ + 1,
                            !.eta_calls =
                                @ \cup order_eta_calls(ajob.technicians,
                                                      current_order_jobs)
                                  \cup individual_eta_calls(ajob.technicians,
                                                           current_order_jobs)]
    /\ UNCHANGED <<solverVars, engineVars, tloop, ubuild>>

AssignReturn ==
    /\ ajob.phase = "orders"
    /\ ajob.next > Len(ajob.order_ids)
    /\ ajob' = [ajob EXCEPT !.phase = "done"]
    /\ UNCHANGED <<assignments_log, solverVars, engineVars, tloop, ubuild>>

AssignNext == AssignWholeOrder \/ AssignJobsIndividually \/ AssignReturn

SpecAssign == InitAssign /\ [][AssignNext]_vars

\* ---- properties of assign_jobs ----

AssignDone == ajob.phase = "done"

TechById(id) ==
    ajob.technicians[CHOOSE i \in DOMAIN ajob.technicians :
                        ajob.technicians[i].id = id]

JobById(id) ==
    ajob.all_eligible_jobs[CHOOSE i \in DOMAIN ajob.all_eligible_jobs :
                              ajob.all_eligible_jobs[i].id = id]

\* The writes the run made for a job, and the technician of the last one.
WritesFor(job_id) ==
    {k \in DOMAIN assignments_log : assignments_log[k].job_id = job_id}

WrittenTech(job_id) ==
    IF WritesFor(job_id) = {} THEN NoTech
    ELSE assignments_log[SetMax(WritesFor(job_id))].tech_id

\* C8: every assignment write pairs a job with a technician whose
\* equipment contains all the equipment the job requires.
C8_AssignedTechHasEquipment ==
    ajob.phase # "idle" =>
        \A k \in DOMAIN assignments_log :
            JobById(assignments_log[k].job_id).equipment_required
                \subseteq TechById(assignments_log[k].tech_id).equipment

\* C8 witness: a run that assigned one order as a whole and a job of
\* another order individually.
C8_Witness ==
    /\ AssignDone
    /\ \E a, b \in DOMAIN assignments_log :
          /\ a # b
          /\ assignments_log[a].tech_id = assignments_log[b].tech_id
          /\ JobById(assignments_log[a].job_id).order_id
               = JobById(assignments_log[b].job_id).order_id
          /\ JobById(assignments_log[a].job_id).equipment_required
               # JobById(assignments_log[b].job_id).equipment_required
    /\ \E c \in DOMAIN assignments_log :
          JobById(assignments_log[c].job_id).order_id = 100

\* The best ETA any technician at the indices idx offers for the jobs.
BestEta(idx, jobs) ==
    LET etas == etas_of(ajob.technicians, idx, jobs)
    IN IF DOMAIN etas = {} THEN NoTime ELSE etas[min_eta_tech(etas)]

BestIndividualEta(job) ==
    BestEta(individual_eligible(ajob.technicians, job), <<job>>)

IndividualWinnerId(job) ==
    IF best_individual_tech(ajob.technicians, job) = NoTech THEN NoTech
    ELSE ajob.technicians[best_individual_tech(ajob.technicians, job)].id

\* C9 (as claimed): an order of two or more jobs goes to the technician with
\* the best combined ETA as a whole only if that ETA is strictly earlier than
\* the latest of its jobs' best individual ETAs; otherwise every job goes to
\* the technician with its own best individual ETA.
C9_WholeOrderOnlyIfEarlier ==
    AssignDone =>
        \A o \in Range(ajob.order_ids) :
            LET order_jobs == jobs_by_order_id(ajob.all_eligible_jobs, o)
                full == fully_equipped_techs(ajob.technicians, order_jobs)
                combined == BestEta(full, order_jobs)
                individual == {BestIndividualEta(order_jobs[i]) :
                                  i \in DOMAIN order_jobs}
                winner == min_eta_tech(etas_of(ajob.technicians, full, order_jobs))
            IN Len(order_jobs) > 1 =>
                 IF combined # NoTime /\ NoTime \notin individual
                      /\ combined < SetMax(individual)
                 THEN \A i \in DOMAIN order_jobs :
                         WrittenTech(order_jobs[i].id) = ajob.technicians[winner].id
                 ELSE \A i \in DOMAIN order_jobs :
                         WrittenTech(order_jobs[i].id)
                           = IndividualWinnerId(order_jobs[i])

\* C10: a run writes at most one assignment per job, and none for a job
\* that no technician is equipped for or for which calculate_eta gives no
\* ETA with any equipped technician.
C10_AtMostOneWrite ==
    ajob.phase # "idle" =>
        \A i \in DOMAIN ajob.all_eligible_jobs :
            LET job == ajob.all_eligible_jobs[i]
                eligible == individual_eligible(ajob.technicians, job)
            IN /\ Cardinality(WritesFor(job.id)) <= 1
               /\ (\A t \in eligible :
                      calculate_eta(ajob.technicians[t], <<job>>) = NoTime)
                    => WritesFor(job.id) = {}

\* C10 witness: a finished run that left one job unassigned although a
\* technician is equipped for it (no ETA), left another unassigned for want
\* of equipment, and assigned a third.
C10_Witness ==
    /\ AssignDone
    /\ assignments_log # <<>>
    /\ \E i \in DOMAIN ajob.all_eligible_jobs :
          LET job == ajob.all_eligible_jobs[i]
          IN /\ ~job.fixed_assignment
             /\ individual_eligible(ajob.technicians, job) # {}
             /\ WritesFor(job.id) = {}
    /\ \E i \in DOMAIN ajob.all_eligible_jobs :
          LET job == ajob.all_eligible_jobs[i]
          IN /\ individual_eligible(ajob.technicians, job) = {}
             /\ WritesFor(job.id) = {}

\* C11: a run issues no assignment for a job with fixed_assignment set, so
\* its technician and status stay as they were, and passes no such job to
\* calculate_eta.
C11_FixedJobsUntouched ==
    ajob.phase # "idle" =>
        \A i \in DOMAIN ajob.all_eligible_jobs :
            LET job == ajob.all_eligible_jobs[i]
            IN job.fixed_assignment =>
                 /\ WritesFor(job.id) = {}
                 /\ \A c \in ajob.eta_calls : job \notin Range(c.jobs)

\* C11 witness: a finished run that assigned a job while leaving alone a
\* fixed job some technician could have taken.
C11_Witness ==
    /\ AssignDone
    /\ assignments_log # <<>>
    /\ \E i \in DOMAIN ajob.all_eligible_jobs :
          /\ ajob.all_eligible_jobs[i].fixed_assignment
          /\ best_individual_tech(ajob.technicians,
                                  ajob.all_eligible_jobs[i]) # NoTech

\* The units the technician's schedule holds on the day of time t.
UnitsOnDayOf(technician, t) ==
    LET day == t \div 86400 + 1
    IN IF day \in DOMAIN technician.schedule
       THEN Range(technician.schedule[day]) ELSE {}

\* C12 (as claimed): an ETA that calculate_eta returns keeps the candidate's
\* interval clear of every unit the technician's schedule holds on that day
\* and, when the day holds units, is no earlier than the end of the
\* existing work plus the travel from the last unit's location.
C12_EtaRespectsSchedule ==
    ajob.phase # "idle" =>
        \A c \in ajob.eta_calls :
            LET units == UnitsOnDayOf(ajob.technicians[c.tech], c.eta)
                last == CHOOSE u \in units :
                           \A w \in units :
                              w.estimated_start_time + w.duration
                                <= u.estimated_start_time + u.duration
            IN (c.eta # NoTime /\ units # {}) =>
                 /\ \A u \in units :
                        \/ c.eta + SumDuration(c.jobs) <= u.estimated_start_time
                        \/ c.eta >= u.estimated_start_time + u.duration
                 /\ c.eta >= last.estimated_start_time + last.duration
                              + calculate_travel_time(last.location,
                                                      c.jobs[1].location)

\* The largest total_duration of a day within the planning horizon.
LargestDailyDuration(technician) ==
    SetMax({0} \cup {get_technician_availability(technician, d).total_duration :
                        d \in 1 .. max_days_to_check})

\* C13 (as claimed): calculate_eta returns None for a candidate whose total
\* duration exceeds the technician's largest single-day total_duration
\* within the 14 days.
C13_TooLongIsRejected ==
    ajob.phase # "idle" =>
        \A c \in ajob.eta_calls :
            SumDuration(c.jobs) > LargestDailyDuration(ajob.technicians[c.tech])
                => c.eta = NoTime

\* ======================================================================
\* The engine's day planner: update_job_queues_and_routes (scheduler.py)
\* with optimize_daily_route_and_get_time and update_etas_for_schedule
\* (routing.py), for one technician.
\* ======================================================================

max_planning_days == 14
max_daily_seconds == 86400
buffer_seconds == 60

\* The jobs of a unit: one job, or for a unit of two hours or more two jobs
\* of the same order, half an hour and the rest; duration is their sum.
UnitJobs(id, duration) ==
    IF duration >= 7200
    THEN <<[id |-> <<id, 1>>, job_duration |-> 1800,
            estimated_sched_end |-> NoTime],
           [id |-> <<id, 2>>, job_duration |-> duration - 1800,
            estimated_sched_end |-> NoTime]>>
    ELSE <<[id |-> <<id, 1>>, job_duration |-> duration,
            estimated_sched_end |-> NoTime]>>

SchedulableUnit(id, priority, duration, location, fixed_schedule_time) ==
    [id |-> id, priority |-> priority, duration |-> duration,
     location |-> location, fixed_schedule_time |-> fixed_schedule_time,
     jobs |-> UnitJobs(id, duration)]

\* datetime.date(), as a day count.
DateOf(t) == t \div 86400

\* dynamic_units.sort(key=priority).
SortByPriority(units) ==
    StableSort(units, [i \in DOMAIN units |-> units[i].priority])

\* Step 4a: the pending fixed units dated today, in fixed-time order.
units_for_today_fixed(pending_fixed_time_units, day_start) ==
    SortByFixedTime(SelectSeq(pending_fixed_time_units,
        LAMBDA u : DateOf(u.fixed_schedule_time) = DateOf(day_start)))

FixedDataValid(unit) == unit.duration # 0 /\ unit.location # NoAddress

FixedInsideDay(unit, day_start, day_end) ==
    /\ unit.fixed_schedule_time >= day_start
    /\ unit.fixed_schedule_time + unit.duration <= day_end

scheduled_fixed_today(pending_fixed_time_units, day_start, day_end) ==
    SelectSeq(units_for_today_fixed(pending_fixed_time_units, day_start),
              LAMBDA u : FixedDataValid(u) /\ FixedInsideDay(u, day_start, day_end))

units_not_scheduled_fixed(pending_fixed_time_units, day_start, day_end) ==
    SelectSeq(units_for_today_fixed(pending_fixed_time_units, day_start),
              LAMBDA u : ~(FixedDataValid(u) /\ FixedInsideDay(u, day_start, day_end)))

\* The overlap scan over the placed fixed units.
RECURSIVE NoFixedOverlap(_, _)
NoFixedOverlap(fixed, last_fixed_end) ==
    IF fixed = <<>> THEN TRUE
    ELSE IF Head(fixed).fixed_schedule_time < last_fixed_end THEN FALSE
    ELSE NoFixedOverlap(Tail(fixed),
                        Head(fixed).fixed_schedule_time + Head(fixed).duration)

valid_fixed_schedule_today(pending_fixed_time_units, day_start, day_end) ==
    /\ \A i \in DOMAIN units_for_today_fixed(pending_fixed_time_units, day_start) :
          LET u == units_for_today_fixed(pending_fixed_time_units, day_start)[i]
          IN FixedDataValid(u) => FixedInsideDay(u, day_start, day_end)
    /\ NoFixedOverlap(scheduled_fixed_today(pending_fixed_time_units,
                                            day_start, day_end), day_start)

\* Step 4b: the events of the day and the gap a dynamic unit fits in.
Event(start_time, end_time, end_location) ==
    [start_time |-> start_time, end_time |-> end_time,
     end_location |-> end_location]

\* events.sort(key=start time).
SortEvents(events) ==
    StableSort(events, [i \in DOMAIN events |-> events[i].start_time])

InitialEvents(fixed, day_start, day_end, start_location_today) ==
    SortEvents(<<Event(day_start, day_start, start_location_today)>>
               \o [i \in DOMAIN fixed |->
                     Event(fixed[i].fixed_schedule_time,
                           fixed[i].fixed_schedule_time + fixed[i].duration,
                           fixed[i].location)]
               \o <<Event(day_end, day_end, NoAddress)>>)

GapEarliestStart(events, i, dyn_unit, start_location_today) ==
    LET loc_A == IF events[i].end_location = NoAddress
                 THEN start_location_today ELSE events[i].end_location
    IN events[i].end_time + calculate_travel_time(loc_A, dyn_unit.location)

GapFits(events, i, dyn_unit, start_location_today) ==
    LET earliest_start == GapEarliestStart(events, i, dyn_unit, start_location_today)
        loc_B == events[i + 1].end_location
        latest_end ==
            IF loc_B # NoAddress
            THEN events[i + 1].start_time
                   - calculate_travel_time(dyn_unit.location, loc_B)
            ELSE events[i + 1].start_time
    IN /\ earliest_start >= events[i].end_time
       /\ earliest_start + dyn_unit.duration <= latest_end

\* best_fit_event_index (1-based), 0 when no gap fits.
best_fit_event_index(events, dyn_unit, start_location_today) ==
    LET fits == {i \in 1 .. Len(events) - 1 :
                    GapFits(events, i, dyn_unit, start_location_today)}
        best == {i \in fits : \A k \in fits :
                    GapEarliestStart(events, i, dyn_unit, start_location_today)
                      <= GapEarliestStart(events, k, dyn_unit, start_location_today)}
    IN IF fits = {} THEN 0 ELSE SetMin(best)

\* The loop over the remaining dynamic units: those placed today.
\* Each unit's gap index is found once, over the events as they stand.
RECURSIVE scheduled_dynamic_today(_, _, _)
scheduled_dynamic_today(remaining, events, start_location_today) ==
    IF remaining = <<>> THEN <<>>
    ELSE CHOOSE placed \in
           {LET dyn_unit == Head(remaining)
                best_fit_start_time ==
                    GapEarliestStart(ev, i, dyn_unit, start_location_today)
                new_event == Event(best_fit_start_time,
                                   best_fit_start_time + dyn_unit.duration,
                                   dyn_unit.location)
            IN IF dyn_unit.duration = 0 \/ dyn_unit.location = NoAddress \/ i = 0
               THEN scheduled_dynamic_today(Tail(remaining), ev,
                                            start_location_today)
               ELSE <<dyn_unit>>
                      \o scheduled_dynamic_today(
                           Tail(remaining),
                           SubSeq(ev, 1, i) \o <<new_event>>
                             \o SubSeq(ev, i + 1, Len(ev)),
                           start_location_today)
            : <<ev, i>> \in {<<events,
                               best_fit_event_index(events, Head(remaining),
                                                    start_location_today)>>}} :
           TRUE

\* ---- optimize_daily_route_and_get_time ----
\* Node 0 is the depot (start_location); node i is units[i]. Cumuls are
\* seconds after day_start_time.

Perms(n) ==
    {r \in [1 .. n -> 1 .. n] : \A i, k \in 1 .. n : i # k => r[i] # r[k]}

NodeLocation(units, start_location, node) ==
    IF node = 0 THEN start_location ELSE units[node].location

distance_callback(units, start_location, from_node, to_node) ==
    calculate_travel_time(NodeLocation(units, start_location, from_node),
                          NodeLocation(units, start_location, to_node))

\* Travel plus the service time of the destination node.
time_callback(units, start_location, from_node, to_node) ==
    distance_callback(units, start_location, from_node, to_node)
      + (IF to_node # 0 THEN units[to_node].duration ELSE 0)

\* The cumul of the k-th stop of the route when the vehicle's start cumul
\* is s0: the dimension has no slack.
RECURSIVE DayCumul(_, _, _, _, _)
DayCumul(units, start_location, route, s0, k) ==
    IF k = 0 THEN s0
    ELSE DayCumul(units, start_location, route, s0, k - 1)
           + time_callback(units, start_location,
                           IF k = 1 THEN 0 ELSE route[k - 1], route[k])

DayEndCumul(units, start_location, route, s0) ==
    DayCumul(units, start_location, route, s0, Len(route))
      + time_callback(units, start_location, route[Len(route)], 0)

fixed_time_seconds(unit, day_start_time) ==
    Max2(0, unit.fixed_schedule_time - day_start_time)

\* time_constraints is the set of unit ids with a fixed start.
DayRouteFeasible(units, start_location, time_constraints, day_start_time, route, s0) ==
    /\ s0 >= 0
    /\ DayEndCumul(units, start_location, route, s0) <= max_daily_seconds
    /\ \A k \in DOMAIN route :
          units[route[k]].id \in time_constraints =>
             LET c == DayCumul(units, start_location, route, s0, k)
                 f == fixed_time_seconds(units[route[k]], day_start_time)
             IN c >= f /\ c <= f + buffer_seconds

\* Start cumuls worth trying: 0 and those that put a fixed unit at either
\* end of its window.
DayStartCandidates(units, start_location, time_constraints, day_start_time, route) ==
    {0} \cup
    {fixed_time_seconds(units[route[k]], day_start_time) + d
       - DayCumul(units, start_location, route, 0, k) :
         k \in {i \in DOMAIN route : units[route[i]].id \in time_constraints},
         d \in {0, buffer_seconds}}

DaySolutions(units, start_location, time_constraints, day_start_time) ==
    {sol \in [route : Perms(Len(units)),
              s0 : UNION {DayStartCandidates(units, start_location,
                                             time_constraints, day_start_time, r) :
                            r \in Perms(Len(units))}] :
        DayRouteFeasible(units, start_location, time_constraints,
                         day_start_time, sol.route, sol.s0)}

NoDaySolution == [route |-> <<>>, s0 |-> 0]

\* The three results of optimize_daily_route_and_get_time for a solution.
optimized_sequence(units, sol) ==
    [k \in DOMAIN sol.route |-> units[sol.route[k]]]

total_route_time(units, start_location, sol) ==
    IF sol = NoDaySolution THEN 0
    ELSE DayCumul(units, start_location, sol.route, sol.s0, Len(sol.route))
           + units[sol.route[Len(sol.route)]].duration

calculated_start_times(units, start_location, day_start_time, sol) ==
    [id \in {units[sol.route[k]].id : k \in DOMAIN sol.route} |->
        LET k == CHOOSE i \in DOMAIN sol.route : units[sol.route[i]].id = id
        IN day_start_time
             + DayCumul(units, start_location, sol.route, sol.s0, k)]

\* ---- update_etas_for_schedule ----

NoStartTimes == [id \in {} |-> NoTime]

\* The manual recalculation of one day, from the k-th unit on: the start of
\* each unit, NoTime from the first unit that overflows the day.
RECURSIVE FallbackStarts(_, _, _, _)
FallbackStarts(units, current_time, current_loc, day_end) ==
    IF units = <<>> THEN <<>>
    ELSE LET unit == Head(units)
             travel == calculate_travel_time(current_loc, unit.location)
             unit_start ==
                 IF unit.fixed_schedule_time # NoTime
                 THEN Max2(current_time + travel, unit.fixed_schedule_time)
                 ELSE current_time + travel
         IN IF unit_start + unit.duration > day_end
            THEN [i \in DOMAIN units |-> NoTime]
            ELSE <<unit_start>>
                   \o FallbackStarts(Tail(units), unit_start + unit.duration,
                                     unit.location, day_end)

\* estimated_start_time of the units of one day of the schedule.
DayEtas(technician, day, units, unit_start_times_today) ==
    IF unit_start_times_today # NoStartTimes
    THEN [i \in DOMAIN units |->
            IF units[i].id \in DOMAIN unit_start_times_today
            THEN unit_start_times_today[units[i].id] ELSE NoTime]
    ELSE IF day \notin DOMAIN technician.availability
    THEN [i \in DOMAIN units |-> NoTime]
    ELSE FallbackStarts(units,
                        get_technician_availability(technician, day).start_time,
                        IF day = 1 THEN technician.current_location
                        ELSE technician.home_location,
                        get_technician_availability(technician, day).end_time)

\* The estimates update_etas_for_schedule leaves, per day of the schedule.
update_etas_for_schedule(technician, schedule, daily_unit_start_times) ==
    [day \in DOMAIN schedule |->
        DayEtas(technician, day, schedule[day],
                IF day \in DOMAIN daily_unit_start_times
                THEN daily_unit_start_times[day] ELSE NoStartTimes)]

\* A stacking that gives every job of the unit the unit's start.
StackJobs_AllAtStart(jobs, job_current_start) ==
    [k \in DOMAIN jobs |-> job_current_start]

\* job.estimated_sched for the jobs of a unit that starts at
\* job_current_start, stacked in the unit's order; None without a start.
RECURSIVE StackJobs(_, _)
StackJobs(jobs, job_current_start) ==
    IF jobs = <<>> THEN <<>>
    ELSE IF job_current_start = NoTime
    THEN [k \in DOMAIN jobs |-> NoTime]
    ELSE <<job_current_start>>
           \o StackJobs(Tail(jobs), job_current_start + Head(jobs).job_duration)

\* estimated_sched of every job, per day and unit of the schedule.
job_estimated_sched(schedule, etas) ==
    [day \in DOMAIN schedule |->
        [i \in DOMAIN schedule[day] |->
            StackJobs(schedule[day][i].jobs, etas[day][i])]]

\* estimated_sched_end of every job after the update, per day and unit of
\* the schedule: the update assigns estimated_sched and the unit's
\* estimated_start_time and estimated_end_time and nothing else, so each
\* job keeps the estimated_sched_end it had.
job_estimated_sched_end(schedule, etas) ==
    [day \in DOMAIN schedule |->
        [i \in DOMAIN schedule[day] |->
            [k \in DOMAIN schedule[day][i].jobs |->
                schedule[day][i].jobs[k].estimated_sched_end]]]

\* ---- update_job_queues_and_routes, one technician ----

EngineRun(technician, all_units) ==
    [phase |-> "planning",
     technician |-> technician,
     all_units |-> all_units,
     remaining_dynamic_units |->
        SortByPriority(SelectSeq(all_units,
                                 LAMBDA u : u.fixed_schedule_time = NoTime)),
     pending_fixed_time_units |->
        SelectSeq(all_units, LAMBDA u : u.fixed_schedule_time # NoTime),
     current_day |-> 1,
     schedule |-> NoSchedule,
     all_daily_start_times |-> [d \in {} |-> NoStartTimes]]

\* A loop condition without the day limit.
Planning_NoDayLimit ==
    /\ eday.phase = "planning"
    /\ eday.remaining_dynamic_units # <<>> \/ eday.pending_fixed_time_units # <<>>

Planning ==
    /\ eday.phase = "planning"
    /\ eday.remaining_dynamic_units # <<>> \/ eday.pending_fixed_time_units # <<>>
    /\ eday.current_day <= max_planning_days

availability_today == get_technician_availability(eday.technician, eday.current_day)

\* A day test that counts every day as available.
HasAvailability_Always == TRUE

HasAvailability ==
    /\ eday.current_day \in DOMAIN eday.technician.availability
    /\ availability_today.total_duration > 0

start_location_today ==
    IF eday.current_day = 1 THEN eday.technician.current_location
    ELSE eday.technician.home_location

fixed_today ==
    scheduled_fixed_today(eday.pending_fixed_time_units,
                          availability_today.start_time,
                          availability_today.end_time)

dynamic_today ==
    IF valid_fixed_schedule_today(eday.pending_fixed_time_units,
                                  availability_today.start_time,
                                  availability_today.end_time)
    THEN scheduled_dynamic_today(
            eday.remaining_dynamic_units,
            InitialEvents(fixed_today, availability_today.start_time,
                          availability_today.end_time, start_location_today),
            start_location_today)
    ELSE <<>>

all_units_today == fixed_today \o dynamic_today

time_constraints_today == {fixed_today[i].id : i \in DOMAIN fixed_today}

\* pending_fixed_time_units after step 4a.
pending_after_today ==
    LET today == Range(units_for_today_fixed(eday.pending_fixed_time_units,
                                             availability_today.start_time))
    IN SelectSeq(eday.pending_fixed_time_units, LAMBDA u : u \notin today)
         \o units_not_scheduled_fixed(eday.pending_fixed_time_units,
                                      availability_today.start_time,
                                      availability_today.end_time)

\* remaining_dynamic_units after step 4b.
remaining_after_today ==
    LET placed == {dynamic_today[i].id : i \in DOMAIN dynamic_today}
    IN SelectSeq(eday.remaining_dynamic_units, LAMBDA u : u.id \notin placed)

Put(f, k, v) == [x \in DOMAIN f \cup {k} |-> IF x = k THEN v ELSE f[x]]

\* A day without availability (or without a start location) is passed over.
EngineSkipDay ==
    /\ Planning
    /\ ~HasAvailability \/ start_location_today = NoAddress
    /\ eday' = [eday EXCEPT
                  !.current_day = @ + 1,
                  !.schedule = IF HasAvailability
                               THEN Put(@, eday.current_day, <<>>) ELSE @]
    /\ UNCHANGED <<eresult, tloop, ubuild, solverVars, assignVars>>

DayPlannable == Planning /\ HasAvailability /\ start_location_today # NoAddress

\* Steps 4a and 4b leave nothing to route today.
EnginePlanEmptyDay ==
    /\ DayPlannable
    /\ all_units_today = <<>>
    /\ eday' = [eday EXCEPT
                  !.current_day = @ + 1,
                  !.schedule = Put(@, eday.current_day, <<>>),
                  !.pending_fixed_time_units = pending_after_today,
                  !.remaining_dynamic_units = remaining_after_today]
    /\ UNCHANGED <<eresult, tloop, ubuild, solverVars, assignVars>>

\* Step 4c, the optimized route fits the day's total_duration: it is
\* committed with its start times.
EngineCommitDay ==
    /\ DayPlannable
    /\ \E units \in {all_units_today} :
          /\ units # <<>>
          /\ \E sol \in DaySolutions(units, start_location_today,
                                     time_constraints_today,
                                     availability_today.start_time) :
                /\ total_route_time(units, start_location_today, sol)
                     <= availability_today.total_duration
                /\ eday' = [eday EXCEPT
                      !.current_day = @ + 1,
                      !.schedule = Put(@, eday.current_day,
                                       optimized_sequence(units, sol)),
                      !.all_daily_start_times =
                          Put(@, eday.current_day,
                              calculated_start_times(
                                  units, start_location_today,
                                  availability_today.start_time, sol)),
                      !.pending_fixed_time_units = pending_after_today,
                      !.remaining_dynamic_units = remaining_after_today]
    /\ UNCHANGED <<eresult, tloop, ubuild, solverVars, assignVars>>

\* Step 4c, the optimized route is longer than total_duration: only its
\* fixed units are kept and the dynamic ones go back to the queue.
EngineRevertDay ==
    /\ DayPlannable
    /\ \E units \in {all_units_today} :
          /\ units # <<>>
          /\ \E sol \in DaySolutions(units, start_location_today,
                                     time_constraints_today,
                                     availability_today.start_time) :
                LET optimized_units == optimized_sequence(units, sol)
                    fixed_in_optimized ==
                        SelectSeq(optimized_units,
                                  LAMBDA u : u.id \in time_constraints_today)
                    starts == calculated_start_times(
                                  units, start_location_today,
                                  availability_today.start_time, sol)
                IN /\ total_route_time(units, start_location_today, sol)
                        > availability_today.total_duration
                   /\ eday' = [eday EXCEPT
                         !.current_day = @ + 1,
                         !.schedule = Put(@, eday.current_day, fixed_in_optimized),
                         !.all_daily_start_times =
                             Put(@, eday.current_day,
                                 [id \in time_constraints_today |-> starts[id]]),
                         !.pending_fixed_time_units = pending_after_today,
                         !.remaining_dynamic_units =
                             SortByPriority(remaining_after_today
                                              \o dynamic_today)]
    /\ UNCHANGED <<eresult, tloop, ubuild, solverVars, assignVars>>

\* Step 4c, the solver returns no solution: ([], 0, {}) is committed.
EngineNoSolutionDay ==
    /\ DayPlannable
    /\ all_units_today # <<>>
    /\ eday' = [eday EXCEPT
                  !.current_day = @ + 1,
                  !.schedule = Put(@, eday.current_day, <<>>),
                  !.all_daily_start_times =
                      Put(@, eday.current_day, NoStartTimes),
                  !.pending_fixed_time_units = pending_after_today,
                  !.remaining_dynamic_units = remaining_after_today]
    /\ UNCHANGED <<eresult, tloop, ubuild, solverVars, assignVars>>

\* Step 4c, optimize_daily_route_and_get_time raises: the day keeps its
\* fixed units at their fixed times and the dynamic ones go back to the
\* queue (lines 490-497).
EngineOptimizerException ==
    /\ DayPlannable
    /\ all_units_today # <<>>
    /\ eday' = [eday EXCEPT
                  !.current_day = @ + 1,
                  !.schedule = Put(@, eday.current_day, fixed_today),
                  !.all_daily_start_times =
                      Put(@, eday.current_day,
                          [id \in time_constraints_today |->
                              (CHOOSE u \in Range(fixed_today) : u.id = id)
                                  .fixed_schedule_time]),
                  !.pending_fixed_time_units = pending_after_today,
                  !.remaining_dynamic_units =
                      SortByPriority(remaining_after_today \o dynamic_today)]
    /\ UNCHANGED <<eresult, tloop, ubuild, solverVars, assignVars>>

\* Step 6: the ETAs of the final schedule, from the optimizer's start times.
EngineUpdateEtas ==
    /\ eday.phase = "planning"
    /\ ~Planning
    /\ LET etas == update_etas_for_schedule(eday.technician, eday.schedule,
                                            eday.all_daily_start_times)
       IN eresult' = [phase |-> "etas", etas |-> etas,
                      estimated_sched |-> job_estimated_sched(eday.schedule, etas),
                      estimated_sched_end |->
                          job_estimated_sched_end(eday.schedule, etas)]
    /\ eday' = [eday EXCEPT !.phase = "done"]
    /\ UNCHANGED <<tloop, ubuild, solverVars, assignVars>>

\* update_etas_for_schedule(technician, None) on the committed schedule:
\* every day is recalculated manually.
EngineRecalculateEtas ==
    /\ eday.phase = "done"
    /\ LET etas == update_etas_for_schedule(eday.technician, eday.schedule,
                                            [d \in {} |-> NoStartTimes])
       IN eresult' = [phase |-> "fallback", etas |-> etas,
                      estimated_sched |-> job_estimated_sched(eday.schedule, etas),
                      estimated_sched_end |->
                          job_estimated_sched_end(eday.schedule, etas)]
    /\ eday' = [eday EXCEPT !.phase = "recalculated"]
    /\ UNCHANGED <<tloop, ubuild, solverVars, assignVars>>

EngineNext ==
    \/ EngineSkipDay
    \/ EnginePlanEmptyDay
    \/ EngineCommitDay
    \/ EngineRevertDay
    \/ EngineNoSolutionDay
    \/ EngineOptimizerException
    \/ EngineUpdateEtas
    \/ EngineRecalculateEtas

\* ---- the day planner's inputs ----

EngineTech(availability) ==
    [id |-> 1, equipment |-> {}, current_location |-> 0, home_location |-> 0,
     availability |-> availability, schedule |-> NoSchedule]

\* A technician whose home location is not known.
EngineTechNoHome(availability) ==
    [EngineTech(availability) EXCEPT !.home_location = NoAddress]

EngineTechs ==
    {EngineTech(a) : a \in {TwoDays, SecondDayOnly, NoDays, ZeroFirstDay}}
      \cup {EngineTechNoHome(TwoDays)}

DynamicDurations == {3600, 10800}

\* Fixed visits on day 1 at 13:00 and after it, at 09:00, and on day 2;
\* two dynamic units of equal priority.
UnitLists ==
    {<<SchedulableUnit("A", 1, dA, 4, NoTime),
       SchedulableUnit("B", 2, dB, 6, NoTime)>> : dA, dB \in DynamicDurations}
    \cup {<<SchedulableUnit("F1", 1, d1, 8, 46800),
            SchedulableUnit("F2", 1, 3600, 6, t2)>> :
              d1 \in {3600, 3900}, t2 \in {49800, 50400, 50700, 50760}}
    \cup {<<SchedulableUnit("F1", 1, 3600, 8, t1),
            SchedulableUnit("A", 2, dA, 4, NoTime)>> :
              t1 \in {32400, 46800, 59400, 86400 + 46800},
              dA \in DynamicDurations}
    \cup {<<SchedulableUnit("A", 2, dA, 4, NoTime)>> : dA \in DynamicDurations}
    \cup {<<SchedulableUnit("B", 2, dB, 6, NoTime),
            SchedulableUnit("A", 2, dA, 4, NoTime)>> : dA, dB \in DynamicDurations}
    \cup {<<>>}

InitEngine ==
    /\ eday \in {EngineRun(t, u) : t \in EngineTechs, u \in UnitLists}
    /\ eresult = EngineIdle
    /\ tloop = EngineIdle
    /\ ubuild = EngineIdle
    /\ ajob = AssignIdle
    /\ assignments_log = <<>>
    /\ payload = NoRequest
    /\ pc = "idle"
    /\ assignment = NoAssignment
    /\ vehicle_id = 0
    /\ routes = <<>>
    /\ assigned_item_ids = {}
    /\ response = NoResponse

SpecEngine == InitEngine /\ [][EngineNext]_vars

\* The plan keeps running until it returns.
SpecEngineFair == SpecEngine /\ WF_vars(EngineNext)

\* ---- properties of the day planner ----

EtasComputed == eresult.phase \in {"etas", "fallback"}

\* C6 (as claimed): every unit of the schedule with fixed_schedule_time = T
\* gets the estimated start T for its first job, from the optimizer's start
\* times and from the manual recalculation alike.
C6_FixedUnitStartsAtFixedTime ==
    EtasComputed =>
        \A day \in DOMAIN eday.schedule :
            \A i \in DOMAIN eday.schedule[day] :
                eday.schedule[day][i].fixed_schedule_time # NoTime =>
                    eresult.etas[day][i]
                      = eday.schedule[day][i].fixed_schedule_time

\* C7 (as claimed): after update_job_queues_and_routes the units of every
\* day start no earlier than the previous unit's end plus the travel between
\* them, and each [start, start + duration] lies inside the day's
\* availability window.
C7_DayIntervalsDisjointInsideWindow ==
    eresult.phase = "etas" =>
        \A day \in DOMAIN eday.schedule :
            LET units == eday.schedule[day]
                starts == eresult.etas[day]
                avail == get_technician_availability(eday.technician, day)
            IN /\ \A i \in DOMAIN units :
                     /\ starts[i] >= avail.start_time
                     /\ starts[i] + units[i].duration <= avail.end_time
               /\ \A i \in DOMAIN units :
                     i > 1 =>
                        starts[i] >= starts[i - 1] + units[i - 1].duration
                                       + calculate_travel_time(
                                            units[i - 1].location,
                                            units[i].location)

\* C15: after update_etas_for_schedule the jobs of a unit with a start have
\* back-to-back ETAs in the unit's order: the first job's estimated_sched
\* is the unit's start and each next one is the previous job's
\* estimated_sched plus that job's duration.
C15_JobsOfUnitSequential ==
    EtasComputed =>
        \A day \in DOMAIN eday.schedule :
            \A i \in DOMAIN eday.schedule[day] :
                LET jobs == eday.schedule[day][i].jobs
                    sched == eresult.estimated_sched[day][i]
                IN eresult.etas[day][i] # NoTime =>
                     /\ Len(sched) = Len(jobs)
                     /\ sched[1] = eresult.etas[day][i]
                     /\ \A k \in 1 .. Len(jobs) - 1 :
                           sched[k + 1] = sched[k] + jobs[k].job_duration

\* C15 witness: ETAs were written for a unit of two jobs, from the
\* optimizer's start times and again by the manual recalculation.
C15_Witness ==
    /\ eresult.phase = "fallback"
    /\ \E day \in DOMAIN eday.schedule :
          \E i \in DOMAIN eday.schedule[day] :
             /\ Len(eday.schedule[day][i].jobs) = 2
             /\ eresult.etas[day][i] # NoTime
             /\ eresult.estimated_sched[day][i][2] > eresult.etas[day][i]

\* C19: the day loop of update_job_queues_and_routes ends.  Every iteration
\* moves current_day on by one, current_day never passes
\* max_planning_days + 1, the loop is left as soon as both queues are empty,
\* and the plan gets to its ETA update.
C19_PlanTerminates ==
    /\ [][(eday.phase = "planning" /\ eday'.phase = "planning")
            => eday'.current_day = eday.current_day + 1]_vars
    /\ [](eday.phase # "idle" =>
            /\ eday.current_day <= max_planning_days + 1
            /\ (eday.phase # "planning" =>
                   \/ eday.current_day = max_planning_days + 1
                   \/ (eday.remaining_dynamic_units = <<>>
                         /\ eday.pending_fixed_time_units = <<>>)))
    /\ <>(eday.phase # "planning")

\* C19 witness: a plan that ended on the day limit with units still queued,
\* after a day on which the optimizer raised.
C19_Witness ==
    /\ eday.phase = "done"
    /\ eday.current_day = max_planning_days + 1
    /\ eday.remaining_dynamic_units # <<>>
    /\ 1 \in DOMAIN eday.schedule

\* ======================================================================
\* The planner as a whole: a run of assign_jobs and a run of
\* update_job_queues_and_routes, in any interleaving.
\* ======================================================================

InitPlanner ==
    /\ ajob \in {AssignRun(<<Tech(3, {"tool_a", "tool_c"}, a, NoSchedule)>>, j) :
                    a \in Availabilities,
                    j \in {<<Job(1000, 99, 4, 1800, {"tool_a"}, FALSE)>>,
                           <<Job(1000, 99, 4, 7200, {"tool_a"}, FALSE),
                             Job(1001, 99, 4, 1800, {"tool_c"}, FALSE)>>}}
    /\ assignments_log = <<>>
    /\ eday \in {EngineRun(t, u) : t \in EngineTechs, u \in UnitLists}
    /\ eresult = EngineIdle
    /\ tloop = EngineIdle
    /\ ubuild = EngineIdle
    /\ payload = NoRequest
    /\ pc = "idle"
    /\ assignment = NoAssignment
    /\ vehicle_id = 0
    /\ routes = <<>>
    /\ assigned_item_ids = {}
    /\ response = NoResponse

PlannerNext == AssignNext \/ EngineNext

SpecPlanner == InitPlanner /\ [][PlannerNext]_vars

\* A day on which the technician has a window with positive total_duration.
AvailableDay(technician, day) ==
    /\ day \in DOMAIN technician.availability
    /\ technician.availability[day].total_duration > 0

\* C14: a day for which the availability provider gives nothing or a
\* total_duration <= 0 gets no schedule entry from
\* update_job_queues_and_routes, and calculate_eta returns no start on it.
C14_UnavailableDaysSkipped ==
    /\ eday.phase # "idle" =>
          \A d \in DOMAIN eday.schedule : AvailableDay(eday.technician, d)
    /\ ajob.phase # "idle" =>
          \A c \in ajob.eta_calls :
             c.eta # NoTime =>
                AvailableDay(ajob.technicians[c.tech], c.eta \div 86400 + 1)

\* C14 witness: the plan skipped an unavailable first day and put the
\* pending units on day 2, and calculate_eta gave a start on day 2 for a
\* technician without a usable first day.
C14_Witness ==
    /\ eday.phase = "done"
    /\ ~AvailableDay(eday.technician, 1)
    /\ 1 \notin DOMAIN eday.schedule
    /\ 2 \in DOMAIN eday.schedule
    /\ eday.schedule[2] # <<>>
    /\ AssignDone
    /\ \E c \in ajob.eta_calls :
          /\ ~AvailableDay(ajob.technicians[c.tech], 1)
          /\ c.eta >= 86400

(***************************************************************************)
(* update_job_queues_and_routes over the technician list                   *)
(***************************************************************************)

\* One technician of the list with what the calls made for it give:
\* fetch_assigned_jobs raises or returns jobs, and create_schedulable_units
\* raises or returns the units of these jobs (no units: no assigned jobs).
TechInput(technician, fetch_raises, units, units_build) ==
    [technician |-> technician, fetch_raises |-> fetch_raises,
     units |-> units, units_build |-> units_build]

LoopTech(id, availability) == [EngineTech(availability) EXCEPT !.id = id]

LoopUnits == <<SchedulableUnit("A", 2, 10800, 4, NoTime)>>

FirstTechInputs ==
    {TechInput(LoopTech(1, a), FALSE, u, TRUE) :
        a \in {TwoDays, ZeroFirstDay}, u \in UnitLists}
      \cup {TechInput(LoopTech(1, TwoDays), TRUE, LoopUnits, TRUE),
            TechInput(LoopTech(1, TwoDays), FALSE, LoopUnits, FALSE)}

SecondTechInputs ==
    {TechInput(LoopTech(2, a), FALSE, u, TRUE) :
        a \in {TwoDays, SecondDayOnly}, u \in {LoopUnits, <<>>}}
      \cup {TechInput(LoopTech(2, TwoDays), TRUE, LoopUnits, TRUE),
            TechInput(LoopTech(2, TwoDays), FALSE, LoopUnits, FALSE)}

\* The technician list in both orders.
TechnicianInputLists ==
    UNION {{<<a, b>>, <<b, a>>} : a \in FirstTechInputs, b \in SecondTechInputs}

NoResults == [id \in {} |-> EngineIdle]

TechLoopRun(technicians) ==
    [phase |-> "next", technicians |-> technicians, idx |-> 1,
     results |-> NoResults]

InitTechLoop ==
    /\ tloop \in {TechLoopRun(l) : l \in TechnicianInputLists}
    /\ ubuild = EngineIdle
    /\ eday = EngineIdle
    /\ eresult = EngineIdle
    /\ ajob = AssignIdle
    /\ assignments_log = <<>>
    /\ payload = NoRequest
    /\ pc = "idle"
    /\ assignment = NoAssignment
    /\ vehicle_id = 0
    /\ routes = <<>>
    /\ assigned_item_ids = {}
    /\ response = NoResponse

current_tech == tloop.technicians[tloop.idx]

\* What the technician's pass through the loop body left: the outcome, the
\* schedule and the jobs' estimated_sched.
TechResult(outcome, schedule, estimated_sched) ==
    [outcome |-> outcome, schedule |-> schedule,
     estimated_sched |-> estimated_sched]

\* The for statement after a technician: the next one, or the return.
AfterTech(results) ==
    [tloop EXCEPT
       !.results = results,
       !.idx = @ + 1,
       !.phase = IF tloop.idx = Len(tloop.technicians)
                 THEN "returned" ELSE "next"]

\* Lines 294-333: the schedule is cleared; a failed fetch and an empty job
\* list go on to the next technician; group_jobs_by_order and
\* create_schedulable_units run outside any try, so what they raise leaves
\* update_job_queues_and_routes; otherwise the day loop starts.
TechBegin ==
    /\ tloop.phase = "next"
    /\ LET id == current_tech.technician.id
       IN IF current_tech.fetch_raises
          THEN /\ tloop' = AfterTech(Put(tloop.results, id,
                              TechResult("fetch_failed", NoSchedule, NoSchedule)))
               /\ UNCHANGED eday
          ELSE IF current_tech.units = <<>>
          THEN /\ tloop' = AfterTech(Put(tloop.results, id,
                              TechResult("no_jobs", NoSchedule, NoSchedule)))
               /\ UNCHANGED eday
          ELSE IF ~current_tech.units_build
          THEN /\ tloop' = [tloop EXCEPT
                              !.phase = "raised",
                              !.results = Put(@, id,
                                  TechResult("raised", NoSchedule, NoSchedule))]
               /\ UNCHANGED eday
          ELSE /\ tloop' = [tloop EXCEPT !.phase = "days"]
               /\ eday' = EngineRun(current_tech.technician, current_tech.units)
    /\ UNCHANGED <<eresult, ubuild, solverVars, assignVars>>

\* Line 506 after the day loop, and back to the for statement.
TechFinish ==
    /\ tloop.phase = "days"
    /\ eday.phase = "planning"
    /\ ~Planning
    /\ LET etas == update_etas_for_schedule(eday.technician, eday.schedule,
                                            eday.all_daily_start_times)
           estimated_sched == job_estimated_sched(eday.schedule, etas)
       IN /\ eresult' = [phase |-> "etas", etas |-> etas,
                         estimated_sched |-> estimated_sched,
                         estimated_sched_end |->
                             job_estimated_sched_end(eday.schedule, etas)]
          /\ tloop' = AfterTech(Put(tloop.results, eday.technician.id,
                          TechResult("planned", eday.schedule, estimated_sched)))
    /\ eday' = [eday EXCEPT !.phase = "done"]
    /\ UNCHANGED <<ubuild, solverVars, assignVars>>

TechLoopNext ==
    \/ TechBegin
    \/ EngineSkipDay
    \/ EnginePlanEmptyDay
    \/ EngineCommitDay
    \/ EngineRevertDay
    \/ EngineNoSolutionDay
    \/ EngineOptimizerException
    \/ TechFinish

SpecTechLoop == InitTechLoop /\ [][TechLoopNext]_vars

TechLoopOver == tloop.phase \in {"returned", "raised"}

\* C20: when update_job_queues_and_routes is over, every technician of the
\* list has been through the loop body whatever happened to the others (a
\* failed fetch, units that could not be built, a failed day, a failed ETA
\* update), and a step taken for one technician leaves the schedule and
\* the ETAs of every other technician as they were.
C20_TechniciansIndependent ==
    /\ [][tloop.phase \in {"next", "days"} =>
            \A id \in DOMAIN tloop.results :
               id # current_tech.technician.id =>
                  /\ id \in DOMAIN tloop'.results
                  /\ tloop'.results[id] = tloop.results[id]]_vars
    /\ [](TechLoopOver =>
            \A i \in DOMAIN tloop.technicians :
               tloop.technicians[i].technician.id \in DOMAIN tloop.results)

(***************************************************************************)
(* Properties of the day loop                                              *)
(***************************************************************************)

\* C21 (as claimed): a day with units to route ends either with the whole
\* optimized route committed, or, when the optimization gave no solution
\* within the day's capacity, with exactly the placed fixed units committed
\* and every dynamic unit fitted that day back in the remaining queue.
C21_FailedDayKeepsFixed ==
    [][(DayPlannable /\ all_units_today # <<>>) =>
          LET committed == eday'.schedule[eday.current_day]
          IN \/ Range(committed) = Range(all_units_today)
             \/ /\ Range(committed) = Range(fixed_today)
                /\ Range(dynamic_today)
                     \subseteq Range(eday'.remaining_dynamic_units)]_vars

\* Where a unit is at the end of planning: its positions in the days'
\* schedules and in the two queues of the unscheduled report.
PlacesOf(unit) ==
    UNION {{<<"schedule", d, k>> :
              k \in {n \in DOMAIN eday.schedule[d] :
                       eday.schedule[d][n].id = unit.id}} :
           d \in DOMAIN eday.schedule}
      \cup {<<"remaining", 0, k>> :
              k \in {n \in DOMAIN eday.remaining_dynamic_units :
                       eday.remaining_dynamic_units[n].id = unit.id}}
      \cup {<<"pending", 0, k>> :
              k \in {n \in DOMAIN eday.pending_fixed_time_units :
                       eday.pending_fixed_time_units[n].id = unit.id}}

\* C22 (as claimed): when the planning of a technician is over, every unit
\* built from the assigned jobs is in exactly one place, one day's schedule
\* or one of the two queues of the unscheduled report.
C22_EveryUnitInOnePlace ==
    eday.phase = "done" =>
        \A i \in DOMAIN eday.all_units :
            Cardinality(PlacesOf(eday.all_units[i])) = 1

\* The fixed units the claimed placement keeps: in ascending time, a unit
\* that starts before the end of the last kept one is rejected.
RECURSIVE PlacedWithoutOverlap(_, _)
PlacedWithoutOverlap(fixed, last_fixed_end) ==
    IF fixed = <<>> THEN <<>>
    ELSE IF Head(fixed).fixed_schedule_time < last_fixed_end
    THEN PlacedWithoutOverlap(Tail(fixed), last_fixed_end)
    ELSE <<Head(fixed)>>
           \o PlacedWithoutOverlap(Tail(fixed),
                                   Head(fixed).fixed_schedule_time
                                     + Head(fixed).duration)

\* The fixed-time units of one committed day, in time order.
CommittedFixed(day) ==
    SortByFixedTime(SelectSeq(eday.schedule[day],
                              LAMBDA u : u.fixed_schedule_time # NoTime))

\* C23 (as claimed): a fixed unit of the day that is outside the window or
\* overlaps an earlier-placed fixed unit is in the pending fixed queue after
\* the day, and the fixed units committed to a day are pairwise
\* non-overlapping and inside the day's window.
C23_FixedPlacementRejectsOverlap ==
    /\ [][DayPlannable =>
            LET today == units_for_today_fixed(eday.pending_fixed_time_units,
                                               availability_today.start_time)
                kept == PlacedWithoutOverlap(fixed_today,
                                             availability_today.start_time)
            IN \A i \in DOMAIN today :
                  today[i] \notin Range(kept) =>
                     today[i] \in Range(eday'.pending_fixed_time_units)]_vars
    /\ [](eday.phase # "idle" =>
            \A day \in DOMAIN eday.schedule :
               LET fixed == CommittedFixed(day)
                   avail == get_technician_availability(eday.technician, day)
               IN /\ NoFixedOverlap(fixed, avail.start_time)
                  /\ \A i \in DOMAIN fixed :
                        FixedInsideDay(fixed[i], avail.start_time,
                                       avail.end_time))

\* The unit ids of the inputs in ascending order.
UnitIds == <<"A", "B", "F1", "F2">>

IdBefore(a, b) ==
    \E i, j \in DOMAIN UnitIds : UnitIds[i] = a /\ UnitIds[j] = b /\ i < j

\* The claimed order of the dynamic queue: ascending priority number, then
\* descending duration, then id.
OfferedBefore(u, v) ==
    \/ u.priority < v.priority
    \/ u.priority = v.priority /\ u.duration > v.duration
    \/ /\ u.priority = v.priority
       /\ u.duration = v.duration
       /\ IdBefore(u.id, v.id)

\* C24 (as claimed): on every day of the planning the remaining dynamic
\* units are queued, and so offered to the gap fitting, in ascending
\* priority number with ties broken by descending duration and then by id,
\* also after failed units were put back.
C24_DynamicQueueOrder ==
    eday.phase = "planning" =>
        \A i, j \in DOMAIN eday.remaining_dynamic_units :
            i < j => OfferedBefore(eday.remaining_dynamic_units[i],
                                   eday.remaining_dynamic_units[j])

(***************************************************************************)
(* Properties of calculate_eta and assign_jobs, continued                  *)
(***************************************************************************)

\* The available windows of a day as calculate_eta lists them; none on a
\* day without availability or without a start location.
DayWindows(technician, day) ==
    LET availability == get_technician_availability(technician, day)
        day_start_location ==
            IF day = 1 THEN technician.current_location
            ELSE technician.home_location
    IN IF availability = NoAvail \/ availability.total_duration <= 0
          \/ day_start_location = NoAddress
       THEN <<>>
       ELSE WindowsFrom(fixed_units_today(technician, day),
                        availability.start_time, day_start_location,
                        availability.end_time)

\* The claimed candidate start in a window:
\* max(windowStart, windowStart + travel, earliestStartTime).
CandidateStart(w, jobs) ==
    Max2(Max2(w.window_start,
              w.window_start
                + calculate_travel_time(w.location_before_window,
                                        jobs[1].location)),
         jobs[1].earliest_available_time)

CandidateFits(w, jobs) ==
    /\ w.location_before_window # NoAddress
    /\ CandidateStart(w, jobs) + SumDuration(jobs) <= w.window_end

\* C25 (as claimed): a start that calculate_eta returns is the candidate
\* start max(windowStart, windowStart + travel, earliestStartTime) of a
\* window of days 1..14 in which the unit fits, and no earlier window of
\* that day and no window of an earlier day admits a fit.
C25_EtaIsFirstFittingCandidate ==
    ajob.phase # "idle" =>
        \A c \in ajob.eta_calls :
            c.eta # NoTime =>
                \E day \in 1 .. max_days_to_check :
                   LET technician == ajob.technicians[c.tech]
                       windows == DayWindows(technician, day)
                   IN \E k \in DOMAIN windows :
                         /\ c.eta = CandidateStart(windows[k], c.jobs)
                         /\ CandidateFits(windows[k], c.jobs)
                         /\ \A n \in 1 .. k - 1 :
                               ~CandidateFits(windows[n], c.jobs)
                         /\ \A d \in 1 .. day - 1 :
                               \A n \in DOMAIN DayWindows(technician, d) :
                                  ~CandidateFits(DayWindows(technician, d)[n],
                                                 c.jobs)

\* The ids of the technicians at the indices idx that offer the best ETA
\* for the jobs.
BestEtaTechIds(idx, jobs) ==
    {ajob.technicians[i].id :
        i \in {k \in idx :
                 /\ calculate_eta(ajob.technicians[k], jobs) # NoTime
                 /\ calculate_eta(ajob.technicians[k], jobs)
                      = BestEta(idx, jobs)}}

\* C26 (as claimed): the technician written for a job is the one with the
\* lowest id among those with the best ETA, for the order as a whole when
\* it was assigned as a whole and for the job alone otherwise, whatever
\* the order of the technician list.
C26_EqualEtaLowestIdWins ==
    ajob.phase # "idle" =>
        \A k \in DOMAIN assignments_log :
            LET job == JobById(assignments_log[k].job_id)
                order_jobs == jobs_by_order_id(ajob.all_eligible_jobs,
                                               job.order_id)
                whole == best_tech_for_order(ajob.technicians, order_jobs)
                           # NoTech
                tied == IF whole
                        THEN BestEtaTechIds(
                                fully_equipped_techs(ajob.technicians,
                                                     order_jobs), order_jobs)
                        ELSE BestEtaTechIds(
                                individual_eligible(ajob.technicians, job),
                                <<job>>)
            IN assignments_log[k].tech_id = SetMin(tied)

\* ---- group_jobs_by_order and create_schedulable_units ----

\* A job as the unit builder reads it. fixed_schedule_time is a field of
\* the job that the builder does not read.
AssignedJob(id, order_id, priority, job_duration, fixed_schedule_time) ==
    [id |-> id, order_id |-> order_id, priority |-> priority,
     job_duration |-> job_duration, address |-> 4, fixed |-> FALSE,
     assigned_technician_id |-> 1,
     fixed_schedule_time |-> fixed_schedule_time]

JobFixedTimes == {NoTime, 46800, 50400}

\* The jobs fetched for one technician: one order of two jobs, or two
\* orders with interleaved jobs.
TechAssignedJobs ==
    {<<AssignedJob(1, 101, p1, 3600, t1), AssignedJob(2, 101, 2, 1800, t2)>> :
        p1 \in {1, 3}, t1, t2 \in JobFixedTimes}
    \cup {<<AssignedJob(1, 101, 2, 3600, t1), AssignedJob(3, 102, 1, 3600, t3),
            AssignedJob(2, 101, 2, 1800, t2)>> : t1, t2, t3 \in JobFixedTimes}

\* grouped_jobs[job.order_id].append(job): the groups in the order in which
\* their order ids first appear, each with its jobs in list order.
group_jobs_by_order(jobs) ==
    LET order_ids == OrderIdsFrom(jobs, {})
    IN [k \in DOMAIN order_ids |->
          [order_id |-> order_ids[k],
           jobs_in_order |-> SelectSeq(jobs,
                               LAMBDA job : job.order_id = order_ids[k])]]

\* The id of the one technician the jobs of a unit are assigned to, if
\* they agree.
assigned_tech_id_of(jobs_in_order) ==
    LET tech_ids_in_unit ==
            {jobs_in_order[i].assigned_technician_id :
                i \in DOMAIN jobs_in_order} \ {NoTech}
    IN IF Cardinality(tech_ids_in_unit) = 1
       THEN CHOOSE t \in tech_ids_in_unit : TRUE
       ELSE NoTech

\* One unit per group, from the keyword arguments the builder passes; the
\* builder passes no fixed_schedule_time, so the unit keeps the default.
create_schedulable_units(jobs_by_order) ==
    [k \in DOMAIN jobs_by_order |->
        LET jobs_in_order == jobs_by_order[k].jobs_in_order
        IN [order_id |-> jobs_by_order[k].order_id,
            jobs |-> jobs_in_order,
            priority |-> SetMin({jobs_in_order[i].priority :
                                    i \in DOMAIN jobs_in_order}),
            location |-> jobs_in_order[1].address,
            duration |-> SumDuration(jobs_in_order),
            assigned_technician_id |-> assigned_tech_id_of(jobs_in_order),
            fixed |-> \E i \in DOMAIN jobs_in_order : jobs_in_order[i].fixed,
            fixed_schedule_time |-> NoTime]]

InitUnits ==
    /\ ubuild \in {[phase |-> "fetched", tech_assigned_jobs |-> jobs] :
                      jobs \in TechAssignedJobs}
    /\ tloop = EngineIdle
    /\ eday = EngineIdle
    /\ eresult = EngineIdle
    /\ ajob = AssignIdle
    /\ assignments_log = <<>>
    /\ payload = NoRequest
    /\ pc = "idle"
    /\ assignment = NoAssignment
    /\ vehicle_id = 0
    /\ routes = <<>>
    /\ assigned_item_ids = {}
    /\ response = NoResponse

\* Line 314.
UnitsGroup ==
    /\ ubuild.phase = "fetched"
    /\ ubuild' = [phase |-> "grouped",
                  tech_assigned_jobs |-> ubuild.tech_assigned_jobs,
                  jobs_by_order |->
                      group_jobs_by_order(ubuild.tech_assigned_jobs)]
    /\ UNCHANGED <<tloop, engineVars, solverVars, assignVars>>

\* Line 315.
UnitsCreate ==
    /\ ubuild.phase = "grouped"
    /\ ubuild' = [phase |-> "created",
                  tech_assigned_jobs |-> ubuild.tech_assigned_jobs,
                  jobs_by_order |-> ubuild.jobs_by_order,
                  all_units |->
                      create_schedulable_units(ubuild.jobs_by_order)]
    /\ UNCHANGED <<tloop, engineVars, solverVars, assignVars>>

\* Lines 324-326.
UnitsSeparate ==
    /\ ubuild.phase = "created"
    /\ ubuild' = [phase |-> "separated",
                  tech_assigned_jobs |-> ubuild.tech_assigned_jobs,
                  jobs_by_order |-> ubuild.jobs_by_order,
                  all_units |-> ubuild.all_units,
                  fixed_time_units |->
                      SelectSeq(ubuild.all_units,
                                LAMBDA u : u.fixed_schedule_time # NoTime),
                  dynamic_units |->
                      SelectSeq(ubuild.all_units,
                                LAMBDA u : u.fixed_schedule_time = NoTime)]
    /\ UNCHANGED <<tloop, engineVars, solverVars, assignVars>>

UnitsNext ==
    \/ UnitsGroup
    \/ UnitsCreate
    \/ UnitsSeparate

SpecUnits == InitUnits /\ [][UnitsNext]_vars

\* The fixed schedule times of the jobs of a unit.
FixedTimesOf(unit) ==
    {unit.jobs[i].fixed_schedule_time : i \in DOMAIN unit.jobs} \ {NoTime}

\* C27 (as claimed): a unit some job of which has a fixed schedule time
\* has the earliest of them as its own and is classified as a fixed-time
\* unit, and a unit has no fixed schedule time only if none of its jobs
\* has one.
C27_UnitTakesEarliestFixedTime ==
    ubuild.phase = "separated" =>
        \A k \in DOMAIN ubuild.all_units :
            LET unit == ubuild.all_units[k]
            IN /\ FixedTimesOf(unit) # {} =>
                    /\ unit.fixed_schedule_time = SetMin(FixedTimesOf(unit))
                    /\ unit \in Range(ubuild.fixed_time_units)
               /\ unit.fixed_schedule_time = NoTime => FixedTimesOf(unit) = {}

\* C29 (as claimed): after the ETA update, on the optimizer's start times
\* and on the manual recalculation alike, every job with an estimated
\* start has an estimated end equal to that start plus its duration.
C29_JobEndIsStartPlusDuration ==
    eresult.phase \in {"etas", "fallback"} =>
        \A day \in DOMAIN eresult.estimated_sched :
            \A i \in DOMAIN eresult.estimated_sched[day] :
                \A k \in DOMAIN eresult.estimated_sched[day][i] :
                    eresult.estimated_sched[day][i][k] # NoTime =>
                        eresult.estimated_sched_end[day][i][k]
                          = eresult.estimated_sched[day][i][k]
                              + eday.schedule[day][i].jobs[k].job_duration

\* ---- the objective of the routing model ----

\* The items whose drop penalty the claim is about: those with a priority
\* disjunction.
PenaltyOf(p, i) == base_penalty * (max_priority(p) - p.items[i].priority + 1)

\* Two items alike in everything but id, location and priority, each the
\* only item at its location, with alike travel times.
OtherwiseEqual(p, i, j) ==
    LET a == p.items[i]
        b == p.items[j]
        swap(n) == IF n = a.locationIndex THEN b.locationIndex
                   ELSE IF n = b.locationIndex THEN a.locationIndex ELSE n
    IN /\ i # j
       /\ i \in PenaltyItemIdx(p) /\ j \in PenaltyItemIdx(p)
       /\ a.locationIndex # b.locationIndex
       /\ a.durationSeconds = b.durationSeconds
       /\ a.eligibleTechnicianIds = b.eligibleTechnicianIds
       /\ a.fixedTimeISO = NoISO /\ b.fixedTimeISO = NoISO
       /\ \A k \in DOMAIN p.items \ {i, j} :
             p.items[k].locationIndex \notin {a.locationIndex, b.locationIndex}
       /\ \A m, n \in 0 .. p.numLocations - 1 :
             travel_time_callback(p, m, n)
               = travel_time_callback(p, swap(m), swap(n))

\* The ids of the items on the returned routes.
ServedIds == {s.stop.itemId : s \in ReturnedStops}

\* Some assignment that satisfies the model visits both nodes.
BothFit(p, m, n) ==
    \E rt \in [DOMAIN p.technicians -> SeqsOver(VisitNodes(p))] :
        /\ {m, n} \subseteq UNION {Range(rt[v]) : v \in DOMAIN rt}
        /\ \E st \in [DOMAIN p.technicians ->
                        UNION {StartCandidates(p, v, rt[v]) :
                                  v \in DOMAIN p.technicians}] :
              Feasible(p, rt, st)

RECURSIVE ArcCostFrom(_, _, _, _)
ArcCostFrom(p, v, r, k) ==
    IF r = <<>> \/ k > Len(r) + 1 THEN 0
    ELSE arc_cost_callback(p, v, PrevNode(p, v, r, k),
                           IF k > Len(r) THEN EndNode(p, v) ELSE r[k])
           + ArcCostFrom(p, v, r, k + 1)

RECURSIVE ArcCostOfVehicles(_, _, _)
ArcCostOfVehicles(p, rt, v) ==
    IF v > Len(rt) THEN 0
    ELSE ArcCostFrom(p, v, rt[v], 1) + ArcCostOfVehicles(p, rt, v + 1)

\* The penalties of the disjunctions of the items in S.
RECURSIVE PenaltySum(_, _)
PenaltySum(p, S) ==
    IF S = {} THEN 0
    ELSE LET i == SetMin(S)
         IN priority_penalty(p, i) + PenaltySum(p, S \ {i})

\* What the search minimises: the arc costs of the routes and the penalty
\* of every disjunction whose node is on no route.
ObjectiveValue(p, rt) ==
    ArcCostOfVehicles(p, rt, 1)
      + PenaltySum(p, {i \in PenaltyItemIdx(p) :
                         \A v \in DOMAIN rt :
                            p.items[i].locationIndex \notin Range(rt[v])})

\* The routes rt with the nodes m and n exchanged.
ExchangeNodes(rt, m, n) ==
    [v \in DOMAIN rt |->
        [k \in DOMAIN rt[v] |->
            IF rt[v][k] = m THEN n ELSE IF rt[v][k] = n THEN m ELSE rt[v][k]]]

\* Item j is on a route of the assignment and item i, otherwise equal and
\* with a lower priority number, is on none.
HigherNumberPreferred(i, j) ==
    /\ pc = "extract"
    /\ OtherwiseEqual(payload, i, j)
    /\ payload.items[i].priority < payload.items[j].priority
    /\ \E v \in DOMAIN assignment.route :
          payload.items[j].locationIndex \in Range(assignment.route[v])
    /\ \A v \in DOMAIN assignment.route :
          payload.items[i].locationIndex \notin Range(assignment.route[v])

OutcomesOf(id) ==
    UNION {{<<"stop", i, k>> :
              k \in {n \in DOMAIN response.routes[i].stops :
                        response.routes[i].stops[n].itemId = id}} :
             i \in DOMAIN response.routes}
    \cup {<<"unassigned", k>> :
             k \in {n \in DOMAIN response.unassignedItemIds :
                       response.unassignedItemIds[n] = id}}

\* C30: in every response body each input item id is named exactly once,
\* by one stop of one returned route or by unassignedItemIds, and a
\* response with status error has no routes and lists every input id as
\* unassigned.
C30_EveryItemOneOutcome ==
    Responded =>
        /\ \A id \in ItemIds(payload) : Cardinality(OutcomesOf(id)) = 1
        /\ response.status = "error" =>
              /\ response.routes = <<>>
              /\ response.unassignedItemIds = AllItemIds(payload)

\* A response with a route and an unassigned item for a request in which
\* two items share a location index or a solver route was invalidated.
C30_Witness ==
    /\ Responded
    /\ pc = "done"
    /\ response.routes # <<>>
    /\ response.unassignedItemIds # <<>>
    /\ \/ \E i, j \in DOMAIN payload.items :
             i # j /\ payload.items[i].locationIndex
                        = payload.items[j].locationIndex
       \/ IneligibleVehicles # {}
====
